---- MODULE Spec2Model ----
(***************************************************************************)
(* Model of the R6 tracker bot (src/index.js): the per-guild schedule      *)
(* manager (schedules table, guildCrons, node-cron tasks), the ready       *)
(* handler, the command handlers that program and cancel schedules, and    *)
(* the cron callbacks.                                                     *)
(***************************************************************************)
EXTENDS Integers, Sequences, FiniteSets, TLC

\* ------------------------------------------------------------------------
\* Bounds and universes
\* ------------------------------------------------------------------------
GuildOrder == <<"g1", "g2">>
Guilds == {GuildOrder[i] : i \in DOMAIN GuildOrder}
Channels == {"c1", "c2"}
Nicks == {"ana"}

\* cron tasks one process may create before the model stops accepting installs
MaxTasks == 6

\* usernames in the order of qListPlayers (ORDER BY username COLLATE NOCASE)
RosterOrder == <<"ana", "bob", "cid", "dan", "eva", "fay", "gil", "hal">>

\* players a guild has when a batch collects it
MaxRoster == 3
\* entries handed to buildRankings
MaxRanked == 6

Roster(n) == {RosterOrder[i] : i \in 1..n}

NoRow == [none |-> "row"]
NoEntry == [none |-> "entry"]
NoChannel == "none"

\* Time strings are tuples of one-character strings.
TimeInputs ==
  { <<"0","9",":","3","0">>,
    <<" ","2","3",":","5","9">>,
    <<"2","4",":","0","0">>,
    <<"9",":","3","0">>,
    <<"0","9",":","6","0">> }

\* the inputs of the prefix command: args is content.split(/\s+/), so an
\* argument holds no blank
WordInputs == {t \in TimeInputs : \A i \in DOMAIN t : t[i] # " "}

\* ------------------------------------------------------------------------
\* parseHHmm
\* ------------------------------------------------------------------------
Digits == {"0","1","2","3","4","5","6","7","8","9"}

DigitVal(c) ==
  CASE c = "0" -> 0 [] c = "1" -> 1 [] c = "2" -> 2 [] c = "3" -> 3
    [] c = "4" -> 4 [] c = "5" -> 5 [] c = "6" -> 6 [] c = "7" -> 7
    [] c = "8" -> 8 [] c = "9" -> 9

RECURSIVE trimStart(_)
trimStart(s) ==
  IF s # <<>> /\ Head(s) = " " THEN trimStart(Tail(s)) ELSE s

RECURSIVE trimEnd(_)
trimEnd(s) ==
  IF s # <<>> /\ s[Len(s)] = " " THEN trimEnd(SubSeq(s, 1, Len(s) - 1)) ELSE s

trim(s) == trimEnd(trimStart(s))

\* the pattern with 2\d for the hour: /^([01]\d|2\d):([0-5]\d)$/
matchHHmm_anyHour(s) ==
  /\ Len(s) = 5
  /\ s[1] \in {"0","1","2"} /\ s[2] \in Digits
  /\ s[3] = ":"
  /\ s[4] \in {"0","1","2","3","4","5"}
  /\ s[5] \in Digits

\* /^([01]\d|2[0-3]):([0-5]\d)$/
matchHHmm(s) ==
  /\ Len(s) = 5
  /\ \/ s[1] \in {"0","1"} /\ s[2] \in Digits
     \/ s[1] = "2" /\ s[2] \in {"0","1","2","3"}
  /\ s[3] = ":"
  /\ s[4] \in {"0","1","2","3","4","5"}
  /\ s[5] \in Digits

NoParse == [none |-> "parse"]

parseHHmm(s) ==
  LET t == trim(s) IN
  IF ~matchHHmm(t) THEN NoParse
  ELSE [hh |-> 10 * DigitVal(t[1]) + DigitVal(t[2]),
        mm |-> 10 * DigitVal(t[4]) + DigitVal(t[5])]

\* ------------------------------------------------------------------------
\* Dates: luxon DateTime values in the zone TZ, as year, month and day
\* ------------------------------------------------------------------------
Date(y, m, d) == [year |-> y, month |-> m, day |-> d]

\* an invalid DateTime; its toISODate() is null
NoDate == [invalid |-> TRUE]

IsLeap(y) == (y % 4 = 0 /\ y % 100 # 0) \/ y % 400 = 0

DaysInMonth(y, m) ==
  IF m = 2 THEN (IF IsLeap(y) THEN 29 ELSE 28)
  ELSE IF m \in {4, 6, 9, 11} THEN 30 ELSE 31

\* the number of days from 1970-01-01 to the date
Ordinal(dt) ==
  LET y == IF dt.month <= 2 THEN dt.year - 1 ELSE dt.year
      era == y \div 400
      yoe == y - era * 400
      mp == IF dt.month > 2 THEN dt.month - 3 ELSE dt.month + 9
      doy == ((153 * mp + 2) \div 5) + dt.day - 1
      doe == yoe * 365 + (yoe \div 4) - (yoe \div 100) + doy
  IN era * 146097 + doe - 719468

\* the date that many days after 1970-01-01
FromOrdinal(n) ==
  LET z == n + 719468
      era == z \div 146097
      doe == z - era * 146097
      yoe == (doe - (doe \div 1460) + (doe \div 36524) - (doe \div 146096)) \div 365
      doy == doe - (365 * yoe + (yoe \div 4) - (yoe \div 100))
      mp == (5 * doy + 2) \div 153
      d == doy - ((153 * mp + 2) \div 5) + 1
      m == IF mp < 10 THEN mp + 3 ELSE mp - 9
      y == yoe + era * 400
  IN Date(IF m <= 2 THEN y + 1 ELSE y, m, d)

\* dt.weekday: 1 is Monday, 7 is Sunday
weekday(dt) == ((Ordinal(dt) + 3) % 7) + 1

\* DateTime.fromObject({ year, month, day })
fromObject(y, m, d) ==
  IF d >= 1 /\ d <= DaysInMonth(y, m) THEN Date(y, m, d) ELSE NoDate

\* dt.plus({ days: n }), dt.minus({ days: n })
plusDays(dt, n) == FromOrdinal(Ordinal(dt) + n)
minusDays(dt, n) == FromOrdinal(Ordinal(dt) - n)

\* the day of the month kept when it exists in the target month
clampDay(y, m, d) ==
  Date(y, m, IF d > DaysInMonth(y, m) THEN DaysInMonth(y, m) ELSE d)

\* dt.minus({ years: 1 }), dt.minus({ weeks: 1 })
minusYear(dt) == clampDay(dt.year - 1, dt.month, dt.day)
minusWeek(dt) == minusDays(dt, 7)

\* a week that starts on Sunday
startOfWeek_sunday(dt) == minusDays(dt, weekday(dt) % 7)

\* a month taken as thirty days
minusMonth_thirtyDays(dt) == minusDays(dt, 30)

\* dt.minus({ months: 1 })
minusMonth(dt) ==
  IF dt.month = 1 THEN clampDay(dt.year - 1, 12, dt.day)
  ELSE clampDay(dt.year, dt.month - 1, dt.day)

\* dt.startOf('week'), dt.endOf('week'), dt.startOf('month'),
\* dt.endOf('month'), as days
startOfWeek(dt) == minusDays(dt, weekday(dt) - 1)
endOfWeek(dt) == plusDays(dt, 7 - weekday(dt))
startOfMonth(dt) == Date(dt.year, dt.month, 1)
endOfMonth(dt) == Date(dt.year, dt.month, DaysInMonth(dt.year, dt.month))

\* ------------------------------------------------------------------------
\* toISOFromLabel, getCanonicalWindow, getYesterdayWindow
\* ------------------------------------------------------------------------
\* A header label is a tuple: a word, then one-character strings.
MonthNames ==
  <<"Jan", "Feb", "Mar", "Apr", "May", "Jun", "Jul", "Aug", "Sep", "Oct",
    "Nov", "Dec">>

MONTHS_EN ==
  [Jan |-> 1, Feb |-> 2, Mar |-> 3, Apr |-> 4, May |-> 5, Jun |-> 6,
   Jul |-> 7, Aug |-> 8, Sep |-> 9, Oct |-> 10, Nov |-> 11, Dec |-> 12]

NoMatch == [none |-> "match"]
NoIso == [none |-> "iso"]

\* /^\s*(Jan|...|Dec)\s+(\d{1,2})\s*$/.exec(label)
matchLabel(label) ==
  LET t == trim(label)
      rest == IF t = <<>> THEN <<>> ELSE trimStart(Tail(t))
  IN IF /\ t # <<>>
        /\ t[1] \in DOMAIN MONTHS_EN
        /\ Len(rest) < Len(t) - 1
        /\ Len(rest) \in {1, 2}
        /\ \A i \in DOMAIN rest : rest[i] \in Digits
     THEN [mon |-> t[1],
           day |-> IF Len(rest) = 1 THEN DigitVal(rest[1])
                   ELSE 10 * DigitVal(rest[1]) + DigitVal(rest[2])]
     ELSE NoMatch

\* dt.toISODate(): the year, month and day, or null for an invalid DateTime
toISODate(dt) == IF dt = NoDate THEN NoIso ELSE dt

\* toISOFromLabel that keeps the year of the reference date
toISOFromLabel_sameYear(label, ref) ==
  LET m == matchLabel(label) IN
  IF m = NoMatch THEN NoIso
  ELSE toISODate(fromObject(ref.year, MONTHS_EN[m.mon], m.day))

toISOFromLabel(label, ref) ==
  LET m == matchLabel(label) IN
  IF m = NoMatch THEN NoIso
  ELSE LET year == ref.year
           month == MONTHS_EN[m.mon]
           dt == fromObject(year, month, m.day)
       IN toISODate(IF ref.month = 1 /\ month = 12 /\ dt # NoDate
                    THEN minusYear(dt) ELSE dt)

\* A window is the span from the start of the day start to the end of the
\* day end.
Window(start, end) == [start |-> start, end |-> end]

getCanonicalWindow(kind, ref) ==
  IF kind = "week"
  THEN LET prev == minusWeek(ref) IN Window(startOfWeek(prev), endOfWeek(prev))
  ELSE IF kind = "month"
  THEN LET prev == minusMonth(ref)
       IN Window(startOfMonth(prev), endOfMonth(prev))
  ELSE Window(ref, ref)

getYesterdayWindow(ref) == LET y == minusDays(ref, 1) IN Window(y, y)

\* ------------------------------------------------------------------------
\* JavaScript numbers: a finite value is the fraction num/den in lowest terms
\* with den > 0; NaN is 0/0 and Infinity is 1/0.
\* ------------------------------------------------------------------------
NaN == [num |-> 0, den |-> 0]
Infinity == [num |-> 1, den |-> 0]

IsFinite(x) == x.den # 0

Abs(n) == IF n < 0 THEN -n ELSE n

RECURSIVE Gcd(_, _)
Gcd(a, b) == IF b = 0 THEN a ELSE Gcd(b, a % b)

\* n/d in lowest terms (d # 0)
Frac(n, d) ==
  LET g == Gcd(Abs(n), Abs(d))
      sg == IF d < 0 THEN -1 ELSE 1
  IN [num |-> sg * (n \div g), den |-> sg * (d \div g)]

Num(n) == [num |-> n, den |-> 1]

\* a + b, a * b, a / b on finite values
Plus(a, b) == Frac(a.num * b.den + b.num * a.den, a.den * b.den)
Times(a, b) == Frac(a.num * b.num, a.den * b.den)
Over(a, b) == Frac(a.num * b.den, a.den * b.num)

\* x > 0 for a finite or NaN value (NaN > 0 is false)
Positive(x) == IsFinite(x) /\ x.num > 0

\* the sign of b - a, with NaN read as 0 the way Array.prototype.sort reads
\* a comparator result
SignOfDiff(a, b) ==
  IF ~IsFinite(a) \/ ~IsFinite(b) THEN 0
  ELSE LET v == b.num * a.den - a.num * b.den
       IN IF v > 0 THEN 1 ELSE IF v < 0 THEN -1 ELSE 0

\* ------------------------------------------------------------------------
\* aggregate
\* ------------------------------------------------------------------------
\* a total that leaves out the last block
RECURSIVE sumFinite_butLast(_, _)
sumFinite_butLast(blocks, f) ==
  IF Len(blocks) < 2 THEN Num(0)
  ELSE LET b == Head(blocks)
           rest == sumFinite_butLast(Tail(blocks), f)
       IN IF IsFinite(b[f]) THEN Plus(b[f], rest) ELSE rest

RECURSIVE sumFinite(_, _)
sumFinite(blocks, f) ==
  IF blocks = <<>> THEN Num(0)
  ELSE LET b == Head(blocks)
           rest == sumFinite(Tail(blocks), f)
       IN IF IsFinite(b[f]) THEN Plus(b[f], rest) ELSE rest

\* an estimate that gives every block the weight of one kill
RECURSIVE hsShotsEst_unweighted(_)
hsShotsEst_unweighted(blocks) ==
  IF blocks = <<>> THEN Num(0)
  ELSE LET b == Head(blocks)
           rest == hsShotsEst_unweighted(Tail(blocks))
       IN IF IsFinite(b.hs_pct) /\ IsFinite(b.k)
          THEN Plus(Over(b.hs_pct, Num(100)), rest)
          ELSE rest

\* hsShotsEst: the sum of (b.hs_pct / 100) * b.k
RECURSIVE hsShotsEst(_)
hsShotsEst(blocks) ==
  IF blocks = <<>> THEN Num(0)
  ELSE LET b == Head(blocks)
           rest == hsShotsEst(Tail(blocks))
       IN IF IsFinite(b.hs_pct) /\ IsFinite(b.k)
          THEN Plus(Times(Over(b.hs_pct, Num(100)), b.k), rest)
          ELSE rest

aggregate(blocks) ==
  LET totalK == sumFinite(blocks, "k")
      totalD == sumFinite(blocks, "d")
      totalWins == sumFinite(blocks, "wins")
      totalLosses == sumFinite(blocks, "losses")
      kdRaw == IF Positive(totalD) THEN Over(totalK, totalD)
               ELSE IF Positive(totalK) THEN Infinity ELSE Num(0)
      kd == IF IsFinite(kdRaw) THEN kdRaw ELSE Num(0)
      hsPct == IF Positive(totalK)
               THEN Times(Over(hsShotsEst(blocks), totalK), Num(100))
               ELSE Num(0)
  IN [wins |-> totalWins, losses |-> totalLosses, k |-> totalK, d |-> totalD,
      kd |-> kd, hs_pct |-> hsPct, days |-> Num(Len(blocks))]

\* the agg object collectYesterdayForUser builds from the header figures
yesterdayAgg(stats) ==
  [wins |-> stats.wins, losses |-> stats.losses, k |-> stats.k, d |-> stats.d,
   kd |-> IF IsFinite(stats.kd) THEN stats.kd
          ELSE IF Positive(stats.d)
               THEN (IF IsFinite(stats.k) THEN Over(stats.k, stats.d) ELSE NaN)
               ELSE Num(0),
   hs_pct |-> IF IsFinite(stats.hs) THEN stats.hs ELSE Num(0),
   days |-> Num(1)]

\* ------------------------------------------------------------------------
\* buildRankings
\* ------------------------------------------------------------------------
NoAgg == [none |-> "agg"]

\* a flatten without the filter: an errored player is carried as all zeros
flatten_noFilter(collected) ==
  [i \in DOMAIN collected |->
     LET agg == IF collected[i].error THEN aggregate(<<>>)
                ELSE collected[i].agg
     IN [username |-> collected[i].username, wins |-> agg.wins,
         losses |-> agg.losses, k |-> agg.k, d |-> agg.d, kd |-> agg.kd,
         hs_pct |-> agg.hs_pct, days |-> agg.days]]

\* .filter(c => !c.error).map(c => ({ username: c.username, ...c.agg }))
flatten(collected) ==
  LET ok == SelectSeq(collected, LAMBDA c : ~c.error)
  IN [i \in DOMAIN ok |->
        [username |-> ok[i].username, wins |-> ok[i].agg.wins,
         losses |-> ok[i].agg.losses, k |-> ok[i].agg.k, d |-> ok[i].agg.d,
         kd |-> ok[i].agg.kd, hs_pct |-> ok[i].agg.hs_pct,
         days |-> ok[i].agg.days]]

\* the comparator (a, b) => b[key] - a[key] as the sort reads it
Compare(key, a, b) == SignOfDiff(a[key], b[key])

\* Array.prototype.sort of the engine (V8) for arrays shorter than 64: the
\* first run is counted and made ascending, the other elements are put in
\* place by binary insertion.
RECURSIVE runEnd(_, _, _, _)
runEnd(a, key, isDescending, idx) ==
  IF idx > Len(a) THEN idx - 1
  ELSE LET order == Compare(key, a[idx], a[idx - 1])
       IN IF isDescending
          THEN (IF order >= 0 THEN idx - 1 ELSE runEnd(a, key, isDescending, idx + 1))
          ELSE (IF order < 0 THEN idx - 1 ELSE runEnd(a, key, isDescending, idx + 1))

reverseRange(a, n) ==
  [i \in DOMAIN a |-> IF i <= n THEN a[n + 1 - i] ELSE a[i]]

RECURSIVE binarySearch(_, _, _, _, _)
binarySearch(a, key, pivot, left, right) ==
  IF left >= right THEN left
  ELSE LET mid == left + ((right - left) \div 2)
       IN IF Compare(key, pivot, a[mid]) < 0
          THEN binarySearch(a, key, pivot, left, mid)
          ELSE binarySearch(a, key, pivot, mid + 1, right)

RECURSIVE binaryInsertionSort(_, _, _)
binaryInsertionSort(a, key, start) ==
  IF start > Len(a) THEN a
  ELSE LET pivot == a[start]
           left == binarySearch(a, key, pivot, 1, start)
           moved == SubSeq(a, 1, left - 1) \o <<pivot>>
                      \o SubSeq(a, left, start - 1)
                      \o SubSeq(a, start + 1, Len(a))
       IN binaryInsertionSort(moved, key, start + 1)

sortBy(a, key) ==
  IF Len(a) < 2 THEN a
  ELSE LET isDescending == Compare(key, a[2], a[1]) < 0
           run == runEnd(a, key, isDescending, 3)
           made == IF isDescending THEN reverseRange(a, run) ELSE a
       IN binaryInsertionSort(made, key, run + 1)

\* .slice(0, 5)
TopN == 5
slice(a) == SubSeq(a, 1, IF Len(a) < TopN THEN Len(a) ELSE TopN)

buildRankings(collected) ==
  LET flat == flatten(collected) IN
  [mostKills |-> slice(sortBy(flat, "k")),
   mostDeaths |-> slice(sortBy(flat, "d")),
   bestKD |-> slice(sortBy(flat, "kd")),
   bestHS |-> slice(sortBy(flat, "hs_pct")),
   mostWins |-> slice(sortBy(flat, "wins"))]

\* ------------------------------------------------------------------------
\* State
\* ------------------------------------------------------------------------
VARIABLES
  alive,        \* the node process is running
  ready,        \* position of the client 'ready' handler
  schedules,    \* table schedules: guild_id -> row (channel_id, time_str)
  players,      \* table players: guild_id -> set of usernames
  tasks,        \* every node-cron task this process has created
  guildCrons,   \* Map guildId -> { daily, weekly, monthly }
  last,         \* the last command or cron callback the process handled
  browserContext, \* the shared browser context exists
  bpc,          \* position of the collectForGuild / collectForGuildWindow call
  rows,         \* its rows: qListPlayers.all(guildId)
  win,          \* its window: first and last day, as days relative to today
  idx,          \* index in rows of the player being collected
  cand,         \* index of the candidate URL fetchProfileHtml is loading
  thrown,       \* candidate loads of the current player that threw so far
  results,      \* its results array; also the argument of buildRankings
  trace,        \* per entry of results: what the site answered for that player
  rankings,     \* the value buildRankings returned
  now,          \* the day DateTime.now().setZone(TZ) is in
  minute,       \* the minute of that day, from 0 to 1439
  callArg,      \* the blocks a call of aggregate is given
  callRet,      \* the last call of a date or summary function and its value
  fire,         \* the cron callback that is running, and where it is
  cookieCache,  \* COOKIE_CACHE of the fetch-based acquisition
  fetcher,      \* position of its fetchProfileHtml call and what it has seen
  browser,      \* browserInstance, browserContext and the browsers alive
  callers,      \* position of each getBrowserContext call
  closer,       \* position of the checkBrowserIdle call
  cookieStore,  \* COOKIE_CACHE with its expiry, the cookie_cache row, the clock
  pageLoads     \* position of the fetchWithPlaywright call of each batch

schedVars == <<alive, ready, schedules, players, tasks, guildCrons, last>>
collectVars == <<browserContext, bpc, rows, win, idx, cand, thrown, results, trace>>
vars == <<alive, ready, schedules, players, tasks, guildCrons, last,
          browserContext, bpc, rows, win, idx, cand, thrown, results, trace,
          rankings, now, minute, callArg, callRet, fire,
          cookieCache, fetcher, browser, callers, closer,
          cookieStore, pageLoads>>
sessionVars == <<cookieCache, fetcher>>
browserVars == <<browser, callers, closer>>
storeVars == <<cookieStore, pageLoads>>
calcVars ==
  <<now, minute, callArg, callRet, fire, sessionVars, browserVars, storeVars>>

Kinds == {"daily", "weekly", "monthly"}

NoOp == [op |-> "none"]
NoRankings == [none |-> "rankings"]
NoCall == [fn |-> "none"]
NoFire == [kind |-> "none", pc |-> "idle"]

\* the first day the model's clock shows
FirstYear == 2023
FirstDay == Date(FirstYear, 1, 1)

\* the concurrent getBrowserContext calls the model follows
Callers == {"a", "b"}

\* no fetch-based acquisition runs and COOKIE_CACHE is empty
NoCookie == [value |-> "none", fresh |-> FALSE]
NoFetch ==
  [pc |-> "idle", part |-> 0, env |-> "none", cand |-> 0, attempt |-> 0,
   didFarm |-> FALSE, farms |-> 0, header |-> "none", answer |-> "none",
   blockedBefore |-> FALSE]

\* no browser has been launched, nothing acquires or closes one
NoBrowser ==
  [browserInstance |-> 0, browserContext |-> 0, live |-> {}, contexts |-> <<>>,
   idleLong |-> FALSE]
NoCaller == [pc |-> "idle", own |-> 0, got |-> 0, gotWhen |-> "none"]
NoCloser == [pc |-> "idle", closing |-> 0]

\* the batches that run at once in the model of the page loads
Batches == {"b1", "b2"}

\* no cookie is cached or persisted, none has been used
NoCached == [value |-> "none", expiresAt |-> 0, storedAt |-> 0]
NoUse == [site |-> "none", value |-> "none", expiresAt |-> 0, storedAt |-> 0]
NoStore ==
  [part |-> 0, env |-> <<>>, cache |-> NoCached, row |-> NoCached,
   used |-> NoUse]

\* no fetchWithPlaywright call runs
NoLoad ==
  [pc |-> "idle", page |-> FALSE, attempts |-> 0, path |-> {},
   ended |-> "none"]

SessionIdle ==
  /\ cookieCache = NoCookie
  /\ fetcher = NoFetch
  /\ browser = NoBrowser
  /\ callers = [c \in Callers |-> NoCaller]
  /\ closer = NoCloser
  /\ cookieStore = NoStore
  /\ pageLoads = [b \in Batches |-> NoLoad]

\* no date or summary function has been called, no cron callback runs
CalcIdle ==
  /\ now = FirstDay
  /\ minute = 0
  /\ callArg = <<>>
  /\ callRet = NoCall
  /\ fire = NoFire
  /\ SessionIdle

Init ==
  /\ alive = TRUE
  /\ ready = "pending"
  /\ schedules = [g \in Guilds |-> NoRow]
  /\ players = [g \in Guilds |-> {}]
  /\ tasks = <<>>
  /\ guildCrons = [g \in Guilds |-> NoEntry]
  /\ last = NoOp
  /\ browserContext = FALSE
  /\ bpc = "idle"
  /\ rows = <<>>
  /\ win = [start |-> 0, end |-> 0]
  /\ idx = 0
  /\ cand = 0
  /\ thrown = 0
  /\ results = <<>>
  /\ trace = <<>>
  /\ rankings = NoRankings
  /\ CalcIdle

\* ------------------------------------------------------------------------
\* Cron management
\* ------------------------------------------------------------------------
\* a stop that reaches the daily task only
stopTasks_dailyOnly(ts, entry) ==
  [i \in DOMAIN ts |->
     IF i = entry.daily THEN [ts[i] EXCEPT !.running = FALSE] ELSE ts[i]]

\* task.stop() on the three tasks of one guildCrons entry
stopTasks(ts, entry) ==
  [i \in DOMAIN ts |->
     IF i \in {entry.daily, entry.weekly, entry.monthly}
     THEN [ts[i] EXCEPT !.running = FALSE]
     ELSE ts[i]]

\* stopCronsForGuild that forgets the map entry without stopping its tasks
stopCronsForGuild_keepRunning(ts, gc, guildId) ==
  <<ts, [gc EXCEPT ![guildId] = NoEntry]>>

\* the pair <<tasks, guildCrons>> after stopCronsForGuild(guildId)
stopCronsForGuild(ts, gc, guildId) ==
  IF gc[guildId] = NoEntry THEN <<ts, gc>>
  ELSE <<stopTasks(ts, gc[guildId]), [gc EXCEPT ![guildId] = NoEntry]>>

\* cron.schedule(expr, callback, { timezone })
cronSchedule(guildId, kind, parsed, channel_id) ==
  [guild |-> guildId, kind |-> kind, hh |-> parsed.hh, mm |-> parsed.mm,
   channel |-> channel_id, running |-> TRUE]

\* installCronsForGuild without the stopCronsForGuild call
installCronsForGuild_noStop(ts, gc, sch, guildId) ==
  IF sch[guildId] = NoRow \/ parseHHmm(sch[guildId].time_str) = NoParse
  THEN <<ts, gc>>
  ELSE
    LET row == sch[guildId]
        parsed == parseHHmm(row.time_str)
        n == Len(ts)
    IN << ts \o << cronSchedule(guildId, "daily", parsed, row.channel_id),
                   cronSchedule(guildId, "weekly", parsed, row.channel_id),
                   cronSchedule(guildId, "monthly", parsed, row.channel_id) >>,
          [gc EXCEPT ![guildId] =
             [daily |-> n + 1, weekly |-> n + 2, monthly |-> n + 3]] >>

\* the pair <<tasks, guildCrons>> after installCronsForGuild(client, guildId)
installCronsForGuild(ts, gc, sch, guildId) ==
  IF sch[guildId] = NoRow THEN <<ts, gc>>
  ELSE
    LET row == sch[guildId]
        parsed == parseHHmm(row.time_str)
    IN
    IF parsed = NoParse THEN <<ts, gc>>
    ELSE
      LET stopped == stopCronsForGuild(ts, gc, guildId)
          n == Len(stopped[1])
          ts2 == stopped[1]
                   \o << cronSchedule(guildId, "daily", parsed, row.channel_id),
                         cronSchedule(guildId, "weekly", parsed, row.channel_id),
                         cronSchedule(guildId, "monthly", parsed, row.channel_id) >>
      IN << ts2,
            [stopped[2] EXCEPT ![guildId] =
               [daily |-> n + 1, weekly |-> n + 2, monthly |-> n + 3]] >>

\* qAllSchedules.all(): the guilds that have a row, in table order
allSchedules(sch) == SelectSeq(GuildOrder, LAMBDA g : sch[g] # NoRow)

RECURSIVE installAllCronsFrom(_, _, _, _)
installAllCronsFrom(ts, gc, sch, pending) ==
  IF pending = <<>> THEN <<ts, gc>>
  ELSE LET one == installCronsForGuild(ts, gc, sch, Head(pending))
       IN installAllCronsFrom(one[1], one[2], sch, Tail(pending))

installAllCrons(ts, gc, sch) ==
  installAllCronsFrom(ts, gc, sch, allSchedules(sch))

\* ------------------------------------------------------------------------
\* Process life cycle and the 'ready' handler
\* ------------------------------------------------------------------------
NoCrons == [g \in Guilds |-> NoEntry]

\* process.exit / a crash: everything held in memory is gone, the tables stay
ProcessGone(readyAfter) ==
  /\ alive' = FALSE
  /\ ready' = readyAfter
  /\ tasks' = <<>>
  /\ guildCrons' = NoCrons

\* client.login(DISCORD_TOKEN) of a fresh process
Login ==
  /\ ~alive
  /\ alive' = TRUE
  /\ ready' = "pending"
  /\ last' = [op |-> "login"]
  /\ UNCHANGED <<schedules, players, tasks, guildCrons>>

\* process.on('SIGINT')
Sigint ==
  /\ alive
  /\ ProcessGone("pending")
  /\ last' = [op |-> "sigint"]
  /\ UNCHANGED <<schedules, players>>

\* client.once('ready'): up to the await of registerSlashCommands()
ReadyBegin ==
  /\ alive /\ ready = "pending"
  /\ ready' = "registering"
  /\ last' = [op |-> "ready"]
  /\ UNCHANGED <<alive, schedules, players, tasks, guildCrons>>

\* registerSlashCommands() resolved: installAllCrons(client) runs
ReadyInstall ==
  /\ alive /\ ready = "registering"
  /\ Len(tasks) + 3 * Len(allSchedules(schedules)) <= MaxTasks
  /\ LET r == installAllCrons(tasks, guildCrons, schedules)
     IN tasks' = r[1] /\ guildCrons' = r[2]
  /\ ready' = "done"
  /\ last' = [op |-> "installAll"]
  /\ UNCHANGED <<alive, schedules, players>>

\* registerSlashCommands() rejected (rest.put failed): the handler ends there.
\* The client has no 'error' listener, so the rejection either ends the
\* process or is only reported, depending on the runtime.
ReadyRegisterRejected ==
  /\ alive /\ ready = "registering"
  /\ last' = [op |-> "registerRejected"]
  /\ \/ /\ ready' = "failed"
        /\ UNCHANGED <<alive, tasks, guildCrons>>
     \/ ProcessGone("failed")
  /\ UNCHANGED <<schedules, players>>

\* the gateway delivers commands once the client is ready
Serving == alive /\ ready # "pending"

\* ------------------------------------------------------------------------
\* Command handlers (interactionCreate and messageCreate)
\* ------------------------------------------------------------------------
\* qUpsertSchedule.run(guildId, channelId, horario)
qUpsertSchedule(sch, guildId, channel_id, horario) ==
  [sch EXCEPT ![guildId] = [channel_id |-> channel_id, time_str |-> horario]]

\* a delete that removes no row
qDelSchedule_keepsRow(sch, guildId) == sch

\* qDelSchedule.run(guildId)
qDelSchedule(sch, guildId) == [sch EXCEPT ![guildId] = NoRow]

\* the write of /programar and !programar: upsert, then install
programarWrite(g, ch, horario) ==
  /\ Len(tasks) + 3 <= MaxTasks
  /\ schedules' = qUpsertSchedule(schedules, g, ch, horario)
  /\ LET r == installCronsForGuild(tasks, guildCrons, schedules', g)
     IN tasks' = r[1] /\ guildCrons' = r[2]

\* the write of the cancel commands: stop, then delete
cancelarWrite(g) ==
  /\ LET r == stopCronsForGuild(tasks, guildCrons, g)
     IN tasks' = r[1] /\ guildCrons' = r[2]
  /\ schedules' = qDelSchedule(schedules, g)

\* The handlers below act only for a caller with the ManageGuild permission;
\* for any other caller they answer and return without touching any state.

\* interactionCreate, name === 'programar'
SlashProgramar(g, ch, horario) ==
  /\ Serving
  /\ LET accepted == parseHHmm(horario) # NoParse IN
     /\ last' = [op |-> "programar", guild |-> g, time |-> horario,
                 channel |-> IF accepted THEN ch ELSE NoChannel,
                 accepted |-> accepted]
     /\ IF accepted THEN programarWrite(g, ch, horario)
        ELSE UNCHANGED <<schedules, tasks, guildCrons>>
  /\ UNCHANGED <<alive, ready, players>>

\* messageCreate, cmd === 'programar'; target is the resolved channel or none
PrefixProgramar(g, target, horario) ==
  /\ Serving
  /\ LET accepted == target # NoChannel /\ parseHHmm(horario) # NoParse IN
     /\ last' = [op |-> "programar", guild |-> g, time |-> horario,
                 channel |-> IF accepted THEN target ELSE NoChannel,
                 accepted |-> accepted]
     /\ IF accepted THEN programarWrite(g, target, horario)
        ELSE UNCHANGED <<schedules, tasks, guildCrons>>
  /\ UNCHANGED <<alive, ready, players>>

\* interactionCreate, name === 'cancelar_programacao'
SlashCancelar(g) ==
  /\ Serving
  /\ last' = [op |-> "cancelar", guild |-> g]
  /\ cancelarWrite(g)
  /\ UNCHANGED <<alive, ready, players>>

\* messageCreate, cmd === 'cancelar-programação' and its aliases
PrefixCancelar(g) ==
  /\ Serving
  /\ last' = [op |-> "cancelar", guild |-> g]
  /\ cancelarWrite(g)
  /\ UNCHANGED <<alive, ready, players>>

\* /cadastrar and !cadastrar: qInsertPlayer (INSERT OR IGNORE)
Cadastrar(g, nick) ==
  /\ Serving
  /\ last' = [op |-> "cadastrar"]
  /\ players' = [players EXCEPT ![g] = @ \cup {nick}]
  /\ UNCHANGED <<alive, ready, schedules, tasks, guildCrons>>

\* !remover: qDeletePlayer
Remover(g, nick) ==
  /\ Serving
  /\ last' = [op |-> "remover"]
  /\ players' = [players EXCEPT ![g] = @ \ {nick}]
  /\ UNCHANGED <<alive, ready, schedules, tasks, guildCrons>>

\* ------------------------------------------------------------------------
\* Cron callbacks
\* ------------------------------------------------------------------------
\* How one firing of a callback can end.  Every step of the callback is inside
\* its try block; "exit" is ensurePlaywright calling process.exit(1) during
\* the first page load of the firing, when neither playwright nor
\* playwright-core can be imported.
TickThrows == {"throwChannel", "throwCollect", "throwRanking", "throwDelivery"}
TickOutcomes == TickThrows \cup {"notText", "noPlayers", "sent", "exit"}

\* the outcomes the callback of task i can have in the current state
tickOutcomes(i, ranks) ==
  LET g == tasks[i].guild IN
  {"throwChannel", "notText", "throwCollect"}
    \cup (IF players[g] = {} THEN {"noPlayers", "throwDelivery"}
          ELSE {"exit", "sent", "throwDelivery"}
                 \cup (IF ranks THEN {"throwRanking"} ELSE {}))

\* one firing of the callback of task i
cronCallback(i, kind, o) ==
  /\ alive
  /\ i \in DOMAIN tasks
  /\ tasks[i].running
  /\ tasks[i].kind = kind
  /\ o \in tickOutcomes(i, kind # "daily")
  /\ last' = [op |-> "tick", guild |-> tasks[i].guild, task |-> i,
              outcome |-> o]
  /\ IF o = "exit" THEN ProcessGone("pending")
     ELSE UNCHANGED <<alive, ready, tasks, guildCrons>>
  /\ UNCHANGED <<schedules, players>>

DailyTick(i, o) == cronCallback(i, "daily", o)
WeeklyTick(i, o) == cronCallback(i, "weekly", o)
MonthlyTick(i, o) == cronCallback(i, "monthly", o)

\* ------------------------------------------------------------------------
\* The schedule manager as a whole
\* ------------------------------------------------------------------------
Next ==
  \/ /\ Login
     /\ UNCHANGED <<collectVars, rankings, calcVars>>
  \/ /\ Sigint
     /\ UNCHANGED <<collectVars, rankings, calcVars>>
  \/ /\ ReadyBegin
     /\ UNCHANGED <<collectVars, rankings, calcVars>>
  \/ /\ ReadyInstall
     /\ UNCHANGED <<collectVars, rankings, calcVars>>
  \/ /\ ReadyRegisterRejected
     /\ UNCHANGED <<collectVars, rankings, calcVars>>
  \/ /\ \E g \in Guilds, ch \in Channels, t \in TimeInputs :
           SlashProgramar(g, ch, t)
     /\ UNCHANGED <<collectVars, rankings, calcVars>>
  \/ /\ \E g \in Guilds, ch \in Channels \cup {NoChannel}, t \in WordInputs :
           PrefixProgramar(g, ch, t)
     /\ UNCHANGED <<collectVars, rankings, calcVars>>
  \/ /\ \E g \in Guilds : SlashCancelar(g)
     /\ UNCHANGED <<collectVars, rankings, calcVars>>
  \/ /\ \E g \in Guilds : PrefixCancelar(g)
     /\ UNCHANGED <<collectVars, rankings, calcVars>>
  \/ /\ \E g \in Guilds, n \in Nicks : Cadastrar(g, n)
     /\ UNCHANGED <<collectVars, rankings, calcVars>>
  \/ /\ \E g \in Guilds, n \in Nicks : Remover(g, n)
     /\ UNCHANGED <<collectVars, rankings, calcVars>>
  \/ /\ \E i \in 1..MaxTasks, o \in TickOutcomes : DailyTick(i, o)
     /\ UNCHANGED <<collectVars, rankings, calcVars>>
  \/ /\ \E i \in 1..MaxTasks, o \in TickOutcomes : WeeklyTick(i, o)
     /\ UNCHANGED <<collectVars, rankings, calcVars>>
  \/ /\ \E i \in 1..MaxTasks, o \in TickOutcomes : MonthlyTick(i, o)
     /\ UNCHANGED <<collectVars, rankings, calcVars>>

Spec == Init /\ [][Next]_vars

\* ------------------------------------------------------------------------
\* Properties of the schedule manager
\* ------------------------------------------------------------------------
\* the running tasks of one kind that belong to guild g
ActiveIn(ts, g, k) ==
  {i \in DOMAIN ts : ts[i].guild = g /\ ts[i].kind = k /\ ts[i].running}

ActiveOf(ts, g) == UNION {ActiveIn(ts, g, k) : k \in Kinds}

\* a 24-hour HH:mm value, read off the characters
DigitSeq == <<"0","1","2","3","4","5","6","7","8","9">>
IsDigit(c) == \E d \in 1..10 : DigitSeq[d] = c
CharVal(c) == (CHOOSE d \in 1..10 : DigitSeq[d] = c) - 1
TwoDigitVal(s, i) == 10 * CharVal(s[i]) + CharVal(s[i + 1])
IsHHmm(s) ==
  /\ Len(s) = 5
  /\ \A i \in {1, 2, 4, 5} : IsDigit(s[i])
  /\ s[3] = ":"
  /\ TwoDigitVal(s, 1) <= 23
  /\ TwoDigitVal(s, 4) <= 59

\* s without the blanks before and after it
Core(s) ==
  LET nb == {i \in DOMAIN s : s[i] # " "} IN
  IF nb = {} THEN <<>>
  ELSE SubSeq(s, CHOOSE i \in nb : \A j \in nb : i <= j,
                 CHOOSE i \in nb : \A j \in nb : j <= i)

\* an HH:mm value with blanks before and after it
IsPaddedHHmm(s) == IsHHmm(Core(s))

\* hour and minute of a padded HH:mm value
HourOf(s) == TwoDigitVal(Core(s), 1)
MinuteOf(s) == TwoDigitVal(Core(s), 4)

\* task i fires at the time and in the channel of the row
TaskMatchesRow(t, row) ==
  /\ IsPaddedHHmm(row.time_str)
  /\ t.hh = HourOf(row.time_str)
  /\ t.mm = MinuteOf(row.time_str)
  /\ t.channel = row.channel_id

\* guild g has exactly one running daily, weekly and monthly task, all three
\* derived from its row
OneSetFromRow(ts, sch, g) ==
  /\ sch[g] # NoRow
  /\ \A k \in Kinds :
       /\ Cardinality(ActiveIn(ts, g, k)) = 1
       /\ \A i \in ActiveIn(ts, g, k) : TaskMatchesRow(ts[i], sch[g])

\* two tasks created by the same installCronsForGuild call
SameInstall(i, j) == (i - 1) \div 3 = (j - 1) \div 3

\* C1: a guild never has more than one running daily, weekly or monthly task,
\* and every running task of a guild fires at the time and in the channel of
\* the guild's row; a task created for a guild by an earlier install than
\* another task of that guild has been stopped; and right after an accepted
\* program call the guild's row holds the time and channel of that call and
\* its running tasks are exactly one set derived from them.
C1_OneTriggerSet ==
  /\ \A g \in Guilds : \A k \in Kinds :
       /\ Cardinality(ActiveIn(tasks, g, k)) <= 1
       /\ \A i \in ActiveIn(tasks, g, k) :
            schedules[g] # NoRow /\ TaskMatchesRow(tasks[i], schedules[g])
  /\ \A i \in DOMAIN tasks : \A j \in DOMAIN tasks :
       (i < j /\ tasks[i].guild = tasks[j].guild /\ ~SameInstall(i, j))
         => ~tasks[i].running
  /\ (last.op = "programar" /\ last.accepted) =>
       /\ schedules[last.guild] =
            [channel_id |-> last.channel, time_str |-> last.time]
       /\ OneSetFromRow(tasks, schedules, last.guild)

\* a second program call with another time has replaced a guild's first set
C1_Witness ==
  /\ last.op = "programar" /\ last.accepted
  /\ \E j \in DOMAIN tasks :
       /\ tasks[j].guild = last.guild
       /\ ~tasks[j].running
       /\ tasks[j].hh # HourOf(last.time)
  /\ Cardinality(ActiveOf(tasks, last.guild)) = 3

\* C4: after cancel(g) the guild has no running task, no guildCrons entry and
\* no row; a cancel on a guild that has none of them changes nothing at all.
C4_CancelClears ==
  [][last'.op = "cancelar" =>
       LET g == last'.guild IN
       /\ ActiveOf(tasks', g) = {}
       /\ guildCrons'[g] = NoEntry
       /\ schedules'[g] = NoRow
       /\ (schedules[g] = NoRow /\ ActiveOf(tasks, g) = {}) =>
            UNCHANGED <<alive, ready, schedules, players, tasks, guildCrons>>]_vars

\* a scheduled guild was cancelled while the other guild stays scheduled
C4_Witness ==
  /\ last.op = "cancelar"
  /\ \E j \in DOMAIN tasks : tasks[j].guild = last.guild /\ ~tasks[j].running
  /\ schedules[last.guild] = NoRow
  /\ \E h \in Guilds \ {last.guild} : OneSetFromRow(tasks, schedules, h)

TickFailures == TickThrows \cup {"exit"}
C3_TickFailureContained ==
  [][(last'.op = "tick" /\ last'.outcome \in TickFailures) =>
       alive' /\ UNCHANGED <<schedules, tasks, guildCrons>>]_vars

\* C6 as stated: when the ready handler ends, however the registration went,
\* every guild with a row has exactly one running set derived from the row,
\* and the rows are as they were.
C6_StartupReinstalls ==
  [][(ready = "registering" /\ ready' \in {"done", "failed"}) =>
       /\ schedules' = schedules
       /\ \A g \in Guilds :
            schedules'[g] # NoRow => OneSetFromRow(tasks', schedules', g)]_vars

\* ------------------------------------------------------------------------
\* Acquisition: fetchWithPlaywright, fetchProfileHtml, scrapeDailyBlocks
\* ------------------------------------------------------------------------
\* buildCandidates returns four distinct URLs
NumCandidates == 4
\* while (attempts < 10) in fetchWithPlaywright
CFPolls == 10

BlockedStatus == {403, 429, 503}

\* a day section of a profile page, as scrapeDailyBlocks reads it;
\* iso is the day relative to today
Block(iso, wins, losses, k, d, hs) ==
  [iso |-> iso, wins |-> Num(wins), losses |-> Num(losses), k |-> Num(k),
   d |-> Num(d), hs_pct |-> Num(hs)]

\* the day sections of the profile pages the site serves
ProfileBlocks ==
  { <<Block(0, 1, 0, 4, 0, 25), Block(-10, 0, 2, 3, 6, 10)>> }

\* What the site and the browser answer to the load of one candidate URL.
\*  noModule:   neither playwright nor playwright-core can be imported
\*  launchFail: chromium.launch or newContext throws
\*  navError:   page.goto throws (navigation timeout, connection error)
\*  page:       page.goto resolves with a response of some status; the body
\*              is the profile, a block page, or a challenge that the polls
\*              still see clearAfter times and that shows the profile once
\*              it has cleared
PageAnswers ==
  [type : {"page"}, status : {200}, body : {"profile"}, clearAfter : {0},
   blocks : ProfileBlocks]
  \cup
  [type : {"page"}, status : BlockedStatus, body : {"denied"}, clearAfter : {0},
   blocks : {<<>>}]
  \cup
  [type : {"page"}, status : {200, 403}, body : {"challenge"},
   clearAfter : {1, CFPolls, CFPolls + 1}, blocks : ProfileBlocks]

Answers ==
  {[type |-> "noModule"], [type |-> "launchFail"], [type |-> "navError"]}
    \cup PageAnswers

\* the challenge markers are in page.content() at the poll number attempts
challengeShown(answer, attempts) ==
  answer.body = "challenge" /\ attempts < answer.clearAfter

\* the Cloudflare loop: the value of attempts when the loop is left
RECURSIVE pollCloudflare(_, _)
pollCloudflare(answer, attempts) ==
  IF attempts < CFPolls
  THEN (IF ~challengeShown(answer, attempts) THEN attempts
        ELSE pollCloudflare(answer, attempts + 1))
  ELSE attempts

\* finalHtml: what page.content() holds after the loop and the last waits
finalHtml(answer) ==
  LET attempts == pollCloudflare(answer, 0) IN
  IF answer.body = "challenge"
  THEN (IF challengeShown(answer, attempts)
        THEN [kind |-> "challenge", blocks |-> <<>>]
        ELSE [kind |-> "profile", blocks |-> answer.blocks])
  ELSE [kind |-> answer.body, blocks |-> answer.blocks]

\* what the entry of a player was computed from: the profile, or a page
\* that is not the profile (a block page, a challenge still showing)
pageRead(html) == IF html.kind = "profile" THEN "profile" ELSE "blocked"

\* scrapeDailyBlocks: one block per day section found in the html
scrapeDailyBlocks(html) == html.blocks

\* b.iso is set: the block has a resolved date
hasIso(b) == "iso" \in DOMAIN b

\* a filter that leaves out the first day of the window
filterBlocksByWindow_openStart(blocks, start, end) ==
  SelectSeq(blocks, LAMBDA b : hasIso(b) /\ b.iso > start /\ b.iso <= end)

\* filterBlocksByWindow with days as integers
filterBlocksByWindow(blocks, start, end) ==
  SelectSeq(blocks, LAMBDA b : hasIso(b) /\ b.iso >= start /\ b.iso <= end)

\* a range whose start is the days added to today, not taken from it
rangeWindow_plus(range) ==
  [start |-> IF range = "week" THEN 6 ELSE IF range = "month" THEN 29 ELSE 0,
   end |-> 0]

\* the start and end filterBlocksByRange derives from a range
rangeWindow(range) ==
  [start |-> IF range = "day" THEN 0
             ELSE IF range = "week" THEN 0 - 6
             ELSE IF range = "month" THEN 0 - 29
             ELSE 0,
   end |-> 0]

\* filterBlocksByRange, today being the day number of now
filterBlocksByRange(blocks, range, today) ==
  LET w == rangeWindow(range)
  IN filterBlocksByWindow(blocks, today + w.start, today + w.end)

\* the value collectForUser / collectForUserInWindow return from an html
collectFromHtml(username, url, html, w) ==
  LET filtered == filterBlocksByWindow(scrapeDailyBlocks(html), w.start, w.end)
  IN [username |-> username, error |-> FALSE, url |-> url,
      agg |-> aggregate(filtered), count |-> Len(filtered)]

\* the entry the catch of the batch loop pushes
catchEntry(username) ==
  [username |-> username, error |-> TRUE, url |-> 0, agg |-> NoAgg, count |-> 0]

\* qListPlayers.all(guildId)
qListPlayers(g) == SelectSeq(RosterOrder, LAMBDA n : n \in players[g])

\* ------------------------------------------------------------------------
\* collectForGuild / collectForGuildWindow: one batch
\* ------------------------------------------------------------------------
\* the call starts: rows are read, results is empty
startBatch(g, w) ==
  /\ alive
  /\ bpc \in {"idle", "done"}
  /\ rows' = qListPlayers(g)
  /\ win' = w
  /\ results' = <<>>
  /\ trace' = <<>>
  /\ thrown' = 0
  /\ IF rows' = <<>>
     THEN bpc' = "done" /\ idx' = 0 /\ cand' = 0
     ELSE bpc' = "fetch" /\ idx' = 1 /\ cand' = 1
  /\ UNCHANGED <<schedVars, browserContext, rankings>>

CollectForGuild(g, range) == startBatch(g, rangeWindow(range))

CollectForGuildWindow(g, start, end) == startBatch(g, [start |-> start, end |-> end])

\* a loop that goes to the next player without the delay
nextPlayer_noDelay ==
  /\ thrown' = 0
  /\ IF idx = Len(rows)
     THEN bpc' = "done" /\ idx' = idx /\ cand' = 0
     ELSE bpc' = "fetch" /\ idx' = idx + 1 /\ cand' = 1

\* the loop goes on after the entry of the current player has been pushed
nextPlayer ==
  /\ thrown' = 0
  /\ IF idx = Len(rows)
     THEN bpc' = "done" /\ idx' = idx /\ cand' = 0
     ELSE bpc' = "delay" /\ idx' = idx + 1 /\ cand' = 1

\* await delay(2000) before every player but the first
Delay ==
  /\ alive
  /\ bpc = "delay"
  /\ bpc' = "fetch"
  /\ UNCHANGED <<schedVars, browserContext, rows, win, idx, cand, thrown,
                 results, trace, rankings>>

\* fetchWithPlaywright of the current candidate threw: fetchProfileHtml goes
\* to the next candidate, or throws after the last one and the batch loop
\* catches
candidateThrew ==
  IF cand < NumCandidates
  THEN /\ cand' = cand + 1
       /\ thrown' = thrown + 1
       /\ UNCHANGED <<bpc, idx, results, trace>>
  ELSE /\ results' = Append(results, catchEntry(rows[idx]))
       /\ trace' = Append(trace, [thrown |-> thrown + 1, page |-> "none"])
       /\ nextPlayer

\* one fetchWithPlaywright(url) call of the current player, with the answer
\* of the site
LoadCandidate(answer) ==
  /\ alive
  /\ bpc = "fetch"
  /\ answer.type \in {"noModule", "launchFail"} => ~browserContext
  /\ CASE answer.type = "noModule" ->
          /\ ProcessGone("pending")
          /\ bpc' = "dead"
          /\ browserContext' = FALSE
          /\ UNCHANGED <<schedules, players, last, rows, win, idx, cand,
                         thrown, results, trace, rankings>>
       [] answer.type = "launchFail" ->
          /\ candidateThrew
          /\ UNCHANGED <<schedVars, browserContext, rows, win, rankings>>
       [] answer.type = "navError" ->
          /\ browserContext' = TRUE
          /\ candidateThrew
          /\ UNCHANGED <<schedVars, rows, win, rankings>>
       [] answer.type = "page" ->
          /\ browserContext' = TRUE
          /\ LET html == finalHtml(answer) IN
             /\ results' = Append(results,
                                  collectFromHtml(rows[idx], cand, html, win))
             /\ trace' = Append(trace, [thrown |-> thrown,
                                         page |-> pageRead(html)])
          /\ nextPlayer
          /\ UNCHANGED <<schedVars, rows, win, rankings>>

\* checkBrowserIdle finds the browser unused for BROWSER_IDLE_TIMEOUT; no
\* page load is under way
CheckBrowserIdle ==
  /\ alive
  /\ bpc \in {"idle", "done"}
  /\ browserContext
  /\ browserContext' = FALSE
  /\ UNCHANGED <<schedVars, bpc, rows, win, idx, cand, thrown, results, trace,
                 rankings>>

\* players are registered and removed while a batch runs
CadastrarAny(g, nick) ==
  /\ alive
  /\ players' = [players EXCEPT ![g] = @ \cup {nick}]
  /\ UNCHANGED <<alive, ready, schedules, tasks, guildCrons, last,
                 collectVars, rankings>>

RemoverAny(g, nick) ==
  /\ alive
  /\ players' = [players EXCEPT ![g] = @ \ {nick}]
  /\ UNCHANGED <<alive, ready, schedules, tasks, guildCrons, last,
                 collectVars, rankings>>

BatchGuild == GuildOrder[1]
WindowDays == {0 - 10}

NextCollect ==
  \/ /\ \E range \in {"day", "week", "month"} :
          CollectForGuild(BatchGuild, range)
     /\ UNCHANGED calcVars
  \/ /\ \E a \in WindowDays, b \in WindowDays :
          a <= b /\ CollectForGuildWindow(BatchGuild, a, b)
     /\ UNCHANGED calcVars
  \/ /\ Delay
     /\ UNCHANGED calcVars
  \/ /\ \E answer \in Answers : LoadCandidate(answer)
     /\ UNCHANGED calcVars
  \/ /\ CheckBrowserIdle
     /\ UNCHANGED calcVars
  \/ /\ \E n \in Roster(MaxRoster) : CadastrarAny(BatchGuild, n)
     /\ UNCHANGED calcVars
  \/ /\ \E n \in Roster(MaxRoster) : RemoverAny(BatchGuild, n)
     /\ UNCHANGED calcVars

\* the process is up with empty tables, the ready handler has ended
InitCollect ==
  /\ alive = TRUE
  /\ ready = "done"
  /\ schedules = [g \in Guilds |-> NoRow]
  /\ players = [g \in Guilds |-> {}]
  /\ tasks = <<>>
  /\ guildCrons = NoCrons
  /\ last = [op |-> "installAll"]
  /\ browserContext = FALSE
  /\ bpc = "idle"
  /\ rows = <<>>
  /\ win = [start |-> 0, end |-> 0]
  /\ idx = 0
  /\ cand = 0
  /\ thrown = 0
  /\ results = <<>>
  /\ trace = <<>>
  /\ rankings = NoRankings
  /\ CalcIdle

SpecCollect == InitCollect /\ [][NextCollect]_vars

\* ------------------------------------------------------------------------
\* Properties of one batch
\* ------------------------------------------------------------------------
\* the batch call has returned its results
Returned == alive /\ bpc = "done"

\* the acquisition of the player of entry i failed: every candidate load threw
AcquisitionFailed(i) == trace[i].thrown = NumCandidates

\* the entries pushed so far are those of the first players of rows, in
\* order, and entry i is an error entry exactly when acquisition i failed
EntriesFollowRows ==
  /\ Len(results) = Len(trace)
  /\ Len(results) <= Len(rows)
  /\ \A i \in DOMAIN results :
       /\ results[i].username = rows[i]
       /\ results[i].error <=> AcquisitionFailed(i)
  /\ bpc \in {"fetch", "delay"} => idx = Len(results) + 1
  /\ Returned => Len(results) = Len(rows)

\* a returned batch where a player failed and a later one was collected
FailureThenSuccess ==
  /\ Returned
  /\ \E i, j \in DOMAIN results :
       i < j /\ results[i].error /\ ~results[j].error

\* C2: no entry of a batch is a summary computed from a page that is not the
\* profile: a player whose candidate answered with a block page, or with a
\* challenge that outlasts the polls, has an error entry.
C2_NoSummaryFromBlockedPage ==
  \A i \in DOMAIN results :
    ~results[i].error => trace[i].page = "profile"

\* C7: a batch call gives one entry per row in stored order, an error entry
\* exactly for the players whose acquisition failed, goes on after a failing
\* player, and is never left without returning because an acquisition failed.
C7_OneEntryPerPlayer ==
  /\ EntriesFollowRows
  /\ bpc # "dead"

\* a browser that cannot be launched costs the candidate load only: while
\* no context exists, a load that leaves the process up and the context
\* absent has thrown
LaunchFailureContained ==
  [][(bpc = "fetch" /\ ~browserContext /\ alive' /\ ~browserContext'
        /\ <<idx, cand, bpc>>' # <<idx, cand, bpc>>)
       => \/ cand' = cand + 1 /\ thrown' = thrown + 1 /\ idx' = idx
          \/ /\ cand = NumCandidates
             /\ results' = Append(results, catchEntry(rows[idx]))]_vars

\* C21: when browser automation is unavailable (the module cannot be
\* imported, the browser cannot be launched) the process keeps running and
\* the batch is not left unfinished.
C21_BrowserUnavailableNotFatal ==
  alive /\ bpc \in {"idle", "fetch", "delay", "done"}

\* the fetch of player number idx' starts in this step
FetchStarts == bpc' = "fetch" /\ (bpc # "fetch" \/ idx' # idx)

\* C22: the players of a batch are fetched one at a time in stored order:
\* the fetch of a player starts only when the entry of the player before
\* has been pushed, as a summary or as an error, and the delay between
\* players has passed.
C22_OneAtATimeAfterDelay ==
  [][FetchStarts =>
       IF idx' = 1
       THEN /\ bpc \in {"idle", "done"}
            /\ rows' = qListPlayers(BatchGuild)
            /\ results' = <<>>
       ELSE /\ bpc = "delay"
            /\ rows' = rows
            /\ Len(results) = idx' - 1
            /\ \A i \in DOMAIN results : results[i].username = rows[i]]_vars

\* the fetch of the second player has started after the first one failed
C22_Witness ==
  /\ bpc = "fetch"
  /\ idx = 2
  /\ Len(results) = 1
  /\ results[1].error

\* a step of the fetch of the current player
FetchStep == bpc = "fetch" /\ <<bpc, idx, cand>>' # <<bpc, idx, cand>>

\* where a fetch step leaves the batch: at the next candidate of the same
\* player, at the delay before the next player with the entry of this one
\* pushed, or returned with one entry per player
BatchGoesOn ==
  \/ bpc' = "fetch" /\ idx' = idx /\ cand' = cand + 1
  \/ bpc' = "delay" /\ idx' = idx + 1 /\ Len(results') = idx
  \/ bpc' = "done" /\ Len(results') = Len(rows)

\* with a browser context at hand, every load goes on: a navigation that
\* times out is the throw of one candidate
StalledNavigationAbandoned ==
  [][(FetchStep /\ browserContext) => BatchGoesOn]_vars

\* C23: a stalled navigation is abandoned at the navigation timeout, the
\* fetch goes to the next candidate and the batch to the next player: no
\* step of a fetch leaves the batch unable to return with one entry per
\* player.
C23_BatchNeverHangs ==
  [][FetchStep => BatchGoesOn]_vars

\* ------------------------------------------------------------------------
\* Rankings of a returned batch: collectForGuild / collectForGuildWindow /
\* collectYesterdayForGuild, then buildRankings
\* ------------------------------------------------------------------------
\* the header figures extractDayStatsFromHtml reads for yesterday; wins and
\* losses are integers, a figure whose field is missing from the header is
\* NaN (readHeaderNumber)
Stats(wins, losses, k, d, kd, hs) ==
  [wins |-> Num(wins), losses |-> Num(losses), k |-> k, d |-> d, kd |-> kd,
   hs |-> hs]

\* a complete header, a header without K and K/D, a header without D, K/D
\* and HS%, and another complete header
YesterdayStats ==
  { Stats(2, 1, Num(7), Num(7), Num(1), Num(30)),
    Stats(1, 0, NaN, Num(3), NaN, Num(40)),
    Stats(0, 1, Num(5), NaN, NaN, NaN),
    Stats(3, 0, Num(10), Num(4), Frac(5, 2), Num(55)) }

\* the value collectYesterdayForUser returns when the header is found
collectYesterdayForUser(username, url, stats) ==
  [username |-> username, error |-> FALSE, url |-> url,
   agg |-> yesterdayAgg(stats), count |-> 1]

\* the day sections of the profiles of the ranked players
RankedProfiles ==
  ProfileBlocks
    \cup { <<Block(0, 2, 1, 10, 5, 50)>>, <<Block(0 - 3, 1, 0, 4, 0, 25)>> }

\* what the collection of one player came to, per kind of batch
Outcomes(source) ==
  {[type |-> "failed"]}
    \cup (IF source = "yesterday"
          THEN [type : {"header"}, stats : YesterdayStats]
          ELSE [type : {"profile"}, blocks : RankedProfiles])

\* the entry of the player in the returned results
entryOf(username, outcome) ==
  CASE outcome.type = "failed" -> catchEntry(username)
    [] outcome.type = "header" ->
         collectYesterdayForUser(username, 1, outcome.stats)
    [] outcome.type = "profile" ->
         collectFromHtml(username, 1,
                         [kind |-> "profile", blocks |-> outcome.blocks],
                         rangeWindow("month"))

\* a batch over the first n players of the roster has returned
InitRank ==
  \E n \in 0..MaxRanked : \E source \in {"window", "yesterday"} :
    \E outcome \in [1..n -> Outcomes(source)] :
      /\ alive = TRUE
      /\ ready = "done"
      /\ schedules = [g \in Guilds |-> NoRow]
      /\ players = [g \in Guilds |->
                      IF g = BatchGuild THEN Roster(n) ELSE {}]
      /\ tasks = <<>>
      /\ guildCrons = NoCrons
      /\ last = [op |-> "installAll"]
      /\ browserContext = FALSE
      /\ bpc = "done"
      /\ rows = [i \in 1..n |-> RosterOrder[i]]
      /\ win = rangeWindow("month")
      /\ idx = n
      /\ cand = 0
      /\ thrown = 0
      /\ results = [i \in 1..n |-> entryOf(RosterOrder[i], outcome[i])]
      /\ trace = [i \in 1..n |->
                    IF outcome[i].type = "failed"
                    THEN [thrown |-> NumCandidates, page |-> "none"]
                    ELSE [thrown |-> 0, page |-> "profile"]]
      /\ rankings = NoRankings
      /\ CalcIdle

\* const rk = buildRankings(results)
BuildRankings ==
  /\ alive
  /\ bpc = "done"
  /\ rankings' = buildRankings(results)
  /\ UNCHANGED <<schedVars, collectVars, calcVars>>

NextRank == BuildRankings

SpecRank == InitRank /\ [][NextRank]_vars

\* ------------------------------------------------------------------------
\* Properties of the rankings
\* ------------------------------------------------------------------------
\* the metric each ranking is sorted by
RankKeys ==
  [mostKills |-> "k", mostDeaths |-> "d", bestKD |-> "kd",
   bestHS |-> "hs_pct", mostWins |-> "wins"]

RankNames == DOMAIN RankKeys

Built == rankings # NoRankings

OkNames == {results[i].username : i \in {j \in DOMAIN results : ~results[j].error}}
ErrNames == {results[i].username : i \in {j \in DOMAIN results : results[j].error}}

Listed(r) == {rankings[r][i].username : i \in DOMAIN rankings[r]}

Min(a, b) == IF a < b THEN a ELSE b

\* a < b as JavaScript compares numbers: false when either is NaN
Less(a, b) == IsFinite(a) /\ IsFinite(b) /\ a.num * b.den < b.num * a.den

\* every value the ranked entries carry is finite
RankedInputFinite ==
  \A i \in DOMAIN results :
    ~results[i].error =>
      \A r \in RankNames : IsFinite(results[i].agg[RankKeys[r]])

\* ranking r has at most TopN entries, no entry is below a later one, and no
\* collected player left out of it is above a listed one
TopOrdered(r) ==
  LET key == RankKeys[r]
      rk == rankings[r]
  IN /\ Len(rk) <= TopN
     /\ \A i, j \in DOMAIN rk : i < j => ~Less(rk[i][key], rk[j][key])
     /\ \A i \in DOMAIN results :
          (~results[i].error /\ results[i].username \notin Listed(r))
            => \A j \in DOMAIN rk : ~Less(rk[j][key], results[i].agg[key])

\* C8: no ranking lists a player whose entry is an error entry, and each
\* ranking is made of the collected players: min(5, collected) distinct ones.
C8_ErroredExcluded ==
  Built =>
    \A r \in RankNames :
      /\ Listed(r) \subseteq OkNames
      /\ Listed(r) \cap ErrNames = {}
      /\ Len(rankings[r]) = Min(TopN, Cardinality(OkNames))
      /\ Cardinality(Listed(r)) = Len(rankings[r])

\* rankings built from a batch with an errored and a collected player
C8_Witness ==
  /\ Built
  /\ ErrNames # {}
  /\ OkNames # {}
  /\ \A r \in RankNames : Listed(r) # {}

\* C9: every entry of every ranking has a finite value for the metric of
\* that ranking.
C9_RankedValuesFinite ==
  Built =>
    \A r \in RankNames :
      \A i \in DOMAIN rankings[r] : IsFinite(rankings[r][i][RankKeys[r]])

\* C10: each ranking has at most 5 entries in non-increasing order of its
\* metric, leaves out no collected player above a listed one, and is the
\* value of the call on the same input again.
C10_TopFiveOrdered ==
  Built =>
    /\ \A r \in RankNames : TopOrdered(r)
    /\ rankings = buildRankings(results)

\* the rankings of a batch whose values are all finite are ordered top fives
TopFiveOrderedWhenFinite ==
  (Built /\ RankedInputFinite) => \A r \in RankNames : TopOrdered(r)

\* rankings cut to five entries out of more collected players, all finite
TruncatedFinite ==
  /\ Built
  /\ RankedInputFinite
  /\ Cardinality(OkNames) > TopN

\* ------------------------------------------------------------------------
\* aggregate on the blocks of a window
\* ------------------------------------------------------------------------
\* blocks one call is given
MaxBlocks == 3

\* day sections as scrapeDailyBlocks builds them: every figure is a finite
\* number
DayBlocks ==
  { Block(0, 2, 1, 10, 5, 50), Block(0, 1, 0, 4, 0, 25),
    Block(0, 0, 1, 0, 0, 0), Block(0, 0, 2, 0, 3, 0) }

BlockLists == UNION {[1..n -> DayBlocks] : n \in 0..MaxBlocks}

InitAgg ==
  /\ alive = TRUE
  /\ ready = "done"
  /\ schedules = [g \in Guilds |-> NoRow]
  /\ players = [g \in Guilds |-> {}]
  /\ tasks = <<>>
  /\ guildCrons = NoCrons
  /\ last = [op |-> "installAll"]
  /\ browserContext = FALSE
  /\ bpc = "idle"
  /\ rows = <<>>
  /\ win = [start |-> 0, end |-> 0]
  /\ idx = 0
  /\ cand = 0
  /\ thrown = 0
  /\ results = <<>>
  /\ trace = <<>>
  /\ rankings = NoRankings
  /\ now = FirstDay
  /\ minute = 0
  /\ callArg \in BlockLists
  /\ callRet = NoCall
  /\ fire = NoFire
  /\ SessionIdle

\* const agg = aggregate(filtered)
Aggregate ==
  /\ alive
  /\ callRet' = [fn |-> "aggregate", arg |-> callArg,
                 value |-> aggregate(callArg)]
  /\ UNCHANGED <<schedVars, collectVars, rankings, now, minute, callArg, fire,
              sessionVars, browserVars, storeVars>>

NextAgg == Aggregate

SpecAgg == InitAgg /\ [][NextAgg]_vars

\* ------------------------------------------------------------------------
\* Properties of aggregate
\* ------------------------------------------------------------------------
Aggregated == callRet.fn = "aggregate"

\* the sum of the integer figure f over the first n blocks
RECURSIVE SumTo(_, _, _)
SumTo(bs, f, n) == IF n = 0 THEN 0 ELSE SumTo(bs, f, n - 1) + bs[n][f].num

Total(bs, f) == SumTo(bs, f, Len(bs))

\* the sum of hs_pct * k over the first n blocks
RECURSIVE WeightedTo(_, _)
WeightedTo(bs, n) ==
  IF n = 0 THEN 0
  ELSE WeightedTo(bs, n - 1) + bs[n].hs_pct.num * bs[n].k.num

\* C11 as stated: kd is kills / deaths when deaths > 0, the infinite sentinel
\* when deaths = 0 < kills, and 0 when both are 0.
C11_KdSentinel ==
  Aggregated =>
    LET k == Total(callArg, "k")
        d == Total(callArg, "d")
        kd == callRet.value.kd
    IN IF d > 0 THEN kd = Frac(k, d)
       ELSE IF k > 0 THEN kd = Infinity
       ELSE kd = Num(0)

\* the kd of aggregate is always a finite number: kills / deaths when
\* deaths > 0, and 0 otherwise
KdFinite ==
  Aggregated =>
    LET k == Total(callArg, "k")
        d == Total(callArg, "d")
        kd == callRet.value.kd
    IN IF d > 0 THEN kd = Frac(k, d) ELSE kd = Num(0)

\* C12: hs_pct is the kills-weighted mean of the blocks' percentages:
\* hs_pct * sum(k) = sum(hs_pct * k), hs_pct = 0 when sum(k) = 0, and the
\* blocks (k=10, hs=50), (k=4, hs=25) give k = 14 and hs_pct = 600/14.
C12_WeightedHeadshots ==
  Aggregated =>
    LET k == Total(callArg, "k")
        a == callRet.value
    IN /\ a.k = Num(k)
       /\ k > 0 => Times(a.hs_pct, a.k) = Num(WeightedTo(callArg, Len(callArg)))
       /\ k = 0 => a.hs_pct = Num(0)
       /\ callArg = <<Block(0, 2, 1, 10, 5, 50), Block(0, 1, 0, 4, 0, 25)>>
            => a.k = Num(14) /\ a.hs_pct = Frac(600, 14)

\* aggregate has returned for blocks with different kills and percentages
C12_Witness ==
  /\ Aggregated
  /\ \E i, j \in DOMAIN callArg :
       /\ callArg[i].k # callArg[j].k
       /\ callArg[i].hs_pct # callArg[j].hs_pct
       /\ Positive(callArg[i].k) /\ Positive(callArg[j].k)
  /\ Positive(callRet.value.hs_pct)

\* C13: wins, losses, k and d are the sums of the blocks' figures, days is
\* the number of blocks, every figure is 0 for no block, and the list given
\* is the list as it was.
C13_SumsAndDays ==
  Aggregated =>
    LET a == callRet.value IN
    /\ a.wins = Num(Total(callArg, "wins"))
    /\ a.losses = Num(Total(callArg, "losses"))
    /\ a.k = Num(Total(callArg, "k"))
    /\ a.d = Num(Total(callArg, "d"))
    /\ a.days = Num(Len(callArg))
    /\ callArg = <<>> =>
         a = [wins |-> Num(0), losses |-> Num(0), k |-> Num(0), d |-> Num(0),
              kd |-> Num(0), hs_pct |-> Num(0), days |-> Num(0)]
    /\ callRet.arg = callArg

\* aggregate has returned for several blocks with games in the last one
C13_Witness ==
  /\ Aggregated
  /\ Len(callArg) = MaxBlocks
  /\ Positive(callArg[Len(callArg)].wins)
  /\ Positive(callArg[Len(callArg)].k)

\* aggregate has returned for no block
EmptyAggregated == Aggregated /\ callArg = <<>>

\* ------------------------------------------------------------------------
\* The date functions at every reference date
\* ------------------------------------------------------------------------
\* years of reference dates
NumYears == 2

RefDays ==
  {d \in {Date(y, m, dd) : y \in FirstYear..(FirstYear + NumYears - 1),
                            m \in 1..12, dd \in 1..31} :
     d.day <= DaysInMonth(d.year, d.month)}

DigitChar(n) == CHOOSE c \in Digits : DigitVal(c) = n

\* the label the site shows for a day: "Aug 27", "Dec 5"
Label(mon, d) ==
  IF d < 10 THEN <<mon, " ", DigitChar(d)>>
  ELSE <<mon, " ", DigitChar(d \div 10), DigitChar(d % 10)>>

\* every day of December, some days of every other month, day numbers no
\* month has, padded labels and headers that are no day label
Labels ==
  {Label("Dec", d) : d \in 0..32}
    \cup {Label(MonthNames[m], d) : m \in 1..11, d \in {1, 15, 28, 29, 30, 31}}
    \cup { <<" ", "Jan", " ", " ", "0", "5", " ">>, <<"Today">>,
           <<"Dec", "1">>, <<"Dec", " ", "1", "2", "3">> }

WindowKinds == {"day", "week", "month", "other"}

InitDates ==
  /\ alive = TRUE
  /\ ready = "done"
  /\ schedules = [g \in Guilds |-> NoRow]
  /\ players = [g \in Guilds |-> {}]
  /\ tasks = <<>>
  /\ guildCrons = NoCrons
  /\ last = [op |-> "installAll"]
  /\ browserContext = FALSE
  /\ bpc = "idle"
  /\ rows = <<>>
  /\ win = [start |-> 0, end |-> 0]
  /\ idx = 0
  /\ cand = 0
  /\ thrown = 0
  /\ results = <<>>
  /\ trace = <<>>
  /\ rankings = NoRankings
  /\ now \in RefDays
  /\ minute = 0
  /\ callArg = <<>>
  /\ callRet = NoCall
  /\ fire = NoFire
  /\ SessionIdle

\* the functions keep no state: a behaviour follows one call, and nothing
\* but its value changes
dateFrame ==
  UNCHANGED <<schedVars, collectVars, rankings, now, minute, callArg, fire,
              sessionVars, browserVars, storeVars>>

\* const iso = toISOFromLabel(header)
ToISOFromLabel(label) ==
  /\ alive /\ callRet = NoCall
  /\ callRet' = [fn |-> "toISOFromLabel", label |-> label,
                 value |-> toISOFromLabel(label, now)]
  /\ dateFrame

\* const { start, end } = getCanonicalWindow(kind, now)
GetCanonicalWindow(kind) ==
  /\ alive /\ callRet = NoCall
  /\ callRet' = [fn |-> "getCanonicalWindow", kind |-> kind,
                 value |-> getCanonicalWindow(kind, now)]
  /\ dateFrame

GetYesterdayWindow ==
  /\ alive /\ callRet = NoCall
  /\ callRet' = [fn |-> "getYesterdayWindow", kind |-> "yesterday",
                 value |-> getYesterdayWindow(now)]
  /\ dateFrame

\* the start and end filterBlocksByRange passes to filterBlocksByWindow
RangeWindow(range) ==
  /\ alive /\ callRet = NoCall
  /\ callRet' = [fn |-> "filterBlocksByRange", kind |-> range,
                 value |-> Window(plusDays(now, rangeWindow(range).start),
                                  plusDays(now, rangeWindow(range).end))]
  /\ dateFrame

NextDates ==
  \/ \E label \in Labels : ToISOFromLabel(label)
  \/ \E kind \in WindowKinds : GetCanonicalWindow(kind)
  \/ GetYesterdayWindow
  \/ \E range \in WindowKinds : RangeWindow(range)

SpecDates == InitDates /\ [][NextDates]_vars

\* ------------------------------------------------------------------------
\* Properties of the date functions
\* ------------------------------------------------------------------------
Resolved == callRet.fn = "toISOFromLabel" /\ callRet.value # NoIso

WindowOf(kind) == callRet.fn = "getCanonicalWindow" /\ callRet.kind = kind

\* the label names a day of December
DecemberLabel == \E d \in 1..31 : callRet.label = Label("Dec", d)

\* C14 as stated: a resolved label is never more than 2 days after the
\* reference date.
C14_AtMostTwoDaysAhead ==
  Resolved => Ordinal(callRet.value) <= Ordinal(now) + 2

\* a resolved label gives the day and month it names, in the year of the
\* reference date or the year before
ResolvedDayAndMonth ==
  Resolved =>
    LET m == matchLabel(callRet.label) IN
    /\ callRet.value.day = m.day
    /\ callRet.value.month = MONTHS_EN[m.mon]
    /\ callRet.value.year \in {now.year, now.year - 1}

\* C15: a label of a day of December read in January resolves to that day
\* of the year before the reference date's year.
C15_DecemberInJanuary ==
  (callRet.fn = "toISOFromLabel" /\ now.month = 1) =>
    \A d \in 1..31 :
      callRet.label = Label("Dec", d)
        => callRet.value = Date(now.year - 1, 12, d)

\* the label Dec 31 has been resolved on a day of January
C15_Witness ==
  /\ Resolved
  /\ now.month = 1
  /\ callRet.label = Label("Dec", 31)
  /\ callRet.value.year = now.year - 1

\* C16: the week window starts on a Monday, ends on the Sunday six days
\* later, and that Sunday is the day before the Monday of the week the
\* reference date is in.
C16_PreviousWeek ==
  WindowOf("week") =>
    LET w == callRet.value IN
    /\ weekday(w.start) = 1
    /\ weekday(w.end) = 7
    /\ Ordinal(w.end) = Ordinal(w.start) + 6
    /\ Ordinal(now) - Ordinal(w.end) = weekday(now)

\* the week window of a Sunday and of a Monday, across a year's end
C16_Witness ==
  /\ WindowOf("week")
  /\ weekday(now) \in {1, 7}
  /\ callRet.value.start.year < now.year

\* C17: the month window runs from the first to the last day of the month
\* before the month of the reference date.
C17_PreviousMonth ==
  WindowOf("month") =>
    LET w == callRet.value IN
    /\ w.start.day = 1
    /\ w.start.month = (IF now.month = 1 THEN 12 ELSE now.month - 1)
    /\ w.start.year = (IF now.month = 1 THEN now.year - 1 ELSE now.year)
    /\ w.end.month = w.start.month
    /\ w.end.year = w.start.year
    /\ plusDays(w.end, 1) = Date(now.year, now.month, 1)

\* the month window of March 31, of a leap year
C17_Witness ==
  /\ WindowOf("month")
  /\ now.month = 3 /\ now.day = 31
  /\ callRet.value.end.day = 29

\* C19: every window of getCanonicalWindow, getYesterdayWindow and
\* filterBlocksByRange has its start no later than its end.
C19_StartBeforeEnd ==
  callRet.fn \in {"getCanonicalWindow", "getYesterdayWindow",
                  "filterBlocksByRange"}
    => Ordinal(callRet.value.start) <= Ordinal(callRet.value.end)

\* the month window of filterBlocksByRange, across a year's end
C19_Witness ==
  /\ callRet.fn = "filterBlocksByRange"
  /\ callRet.kind = "month"
  /\ callRet.value.start.year < callRet.value.end.year

\* ------------------------------------------------------------------------
\* filterBlocksByRange on dated and undated blocks
\* ------------------------------------------------------------------------
\* days of the blocks, counted from the reference day
DayOffsets == {0 - 30, 0 - 29, 0 - 7, 0 - 6, 0 - 1, 0, 1}

\* a block whose label did not resolve to a date
UndatedBlock ==
  [wins |-> Num(1), losses |-> Num(1), k |-> Num(2), d |-> Num(2),
   hs_pct |-> Num(20)]

DatedBlocks(ref) ==
  {Block(Ordinal(ref) + o, 1, 0, 3, 1, 30) : o \in DayOffsets}
    \cup {UndatedBlock}

\* reference days at the start of a year, after a leap day and at a year's end
FilterDays ==
  {FirstDay, Date(FirstYear + 1, 3, 1), Date(FirstYear + 1, 12, 31)}

InitFilter ==
  /\ alive = TRUE
  /\ ready = "done"
  /\ schedules = [g \in Guilds |-> NoRow]
  /\ players = [g \in Guilds |-> {}]
  /\ tasks = <<>>
  /\ guildCrons = NoCrons
  /\ last = [op |-> "installAll"]
  /\ browserContext = FALSE
  /\ bpc = "idle"
  /\ rows = <<>>
  /\ win = [start |-> 0, end |-> 0]
  /\ idx = 0
  /\ cand = 0
  /\ thrown = 0
  /\ results = <<>>
  /\ trace = <<>>
  /\ rankings = NoRankings
  /\ now \in FilterDays
  /\ minute = 0
  /\ callArg \in UNION {[1..n -> DatedBlocks(now)] : n \in 0..MaxBlocks}
  /\ callRet = NoCall
  /\ fire = NoFire
  /\ SessionIdle

\* const filtered = filterBlocksByRange(blocks, range)
FilterBlocksByRange(range) ==
  /\ alive /\ callRet = NoCall
  /\ callRet' = [fn |-> "filterBlocksByRange", kind |-> range,
                 arg |-> callArg,
                 value |-> filterBlocksByRange(callArg, range, Ordinal(now))]
  /\ dateFrame

NextFilter == \E range \in WindowKinds : FilterBlocksByRange(range)

SpecFilter == InitFilter /\ [][NextFilter]_vars

\* the number of days of a range
RangeDays(range) ==
  IF range = "week" THEN 7 ELSE IF range = "month" THEN 30 ELSE 1

\* the positions of the blocks dated in the days of the range
KeptPositions(range) ==
  {i \in DOMAIN callArg :
     /\ hasIso(callArg[i])
     /\ callArg[i].iso > Ordinal(now) - RangeDays(range)
     /\ callArg[i].iso <= Ordinal(now)}

\* the j-th position of a set of positions
NthOf(K, j) == CHOOSE i \in K : Cardinality({x \in K : x < i}) = j - 1

\* C18: filterBlocksByRange keeps exactly the blocks dated in the N days
\* that end on the reference day (1, 7 or 30), drops undated blocks, and
\* keeps the order of the blocks.
C18_RollingWindow ==
  callRet.fn = "filterBlocksByRange" =>
    LET K == KeptPositions(callRet.kind) IN
    /\ Len(callRet.value) = Cardinality(K)
    /\ \A j \in 1..Cardinality(K) : callRet.value[j] = callArg[NthOf(K, j)]
    /\ callRet.arg = callArg

\* a week filter over an undated block, a block of the first day of the
\* window and a block of the day before it
C18_Witness ==
  /\ callRet.fn = "filterBlocksByRange"
  /\ callRet.kind = "week"
  /\ \E i, j, l \in DOMAIN callArg :
       /\ ~hasIso(callArg[i])
       /\ hasIso(callArg[j]) /\ callArg[j].iso = Ordinal(now) - 6
       /\ hasIso(callArg[l]) /\ callArg[l].iso = Ordinal(now) - 7
  /\ Len(callRet.value) = 1

\* ------------------------------------------------------------------------
\* The cron callbacks on the clock: node-cron fires a task at its minute of
\* its days, the callback awaits the channel and then reads the clock
\* ------------------------------------------------------------------------
\* minutes client.channels.fetch may take before the callback goes on
MaxAwait == 1

MinutesPerDay == 24 * 60

\* the minute of the day of a task's cron expression
taskMinute(t) == t.hh * 60 + t.mm

\* the cron expression of the task matches the day
taskDay(t, day) ==
  \/ t.kind = "daily"
  \/ t.kind = "weekly" /\ weekday(day) = 1
  \/ t.kind = "monthly" /\ day.day = 1

\* the kind each callback passes to getCanonicalWindow
windowKind(kind) ==
  IF kind = "weekly" THEN "week" ELSE IF kind = "monthly" THEN "month"
  ELSE "day"

\* a guild has a schedule row with a valid time and its three tasks
InitFire ==
  \E t \in {x \in TimeInputs : parseHHmm(x) # NoParse} :
    LET sch == [g \in Guilds |->
                  IF g = BatchGuild
                  THEN [channel_id |-> "c1", time_str |-> t] ELSE NoRow]
        installed == installCronsForGuild(<<>>, NoCrons, sch, BatchGuild)
    IN
    /\ alive = TRUE
    /\ ready = "done"
    /\ schedules = sch
    /\ players = [g \in Guilds |-> {}]
    /\ tasks = installed[1]
    /\ guildCrons = installed[2]
    /\ last = [op |-> "installAll"]
    /\ browserContext = FALSE
    /\ bpc = "idle"
    /\ rows = <<>>
    /\ win = [start |-> 0, end |-> 0]
    /\ idx = 0
    /\ cand = 0
    /\ thrown = 0
    /\ results = <<>>
    /\ trace = <<>>
    /\ rankings = NoRankings
    /\ now = FirstDay
    /\ minute = taskMinute(parseHHmm(t))
    /\ callArg = <<>>
    /\ callRet = NoCall
    /\ fire = NoFire
    /\ SessionIdle

fireFrame ==
  UNCHANGED <<schedVars, collectVars, rankings, callArg, callRet,
              sessionVars, browserVars, storeVars>>

\* node-cron calls the callback of task i
CronFires(i) ==
  /\ alive
  /\ fire = NoFire
  /\ i \in DOMAIN tasks
  /\ tasks[i].running
  /\ minute = taskMinute(tasks[i])
  /\ taskDay(tasks[i], now)
  /\ fire' = [kind |-> tasks[i].kind, pc |-> "fetch", firedOn |-> now,
              waited |-> 0]
  /\ UNCHANGED <<now, minute>>
  /\ fireFrame

\* a minute passes while the callback awaits client.channels.fetch
AwaitMinute ==
  /\ alive
  /\ fire.pc = "fetch"
  /\ fire.waited < MaxAwait
  /\ fire' = [fire EXCEPT !.waited = @ + 1]
  /\ minute' = (minute + 1) % MinutesPerDay
  /\ now' = IF minute + 1 = MinutesPerDay THEN plusDays(now, 1) ELSE now
  /\ fireFrame

\* the fetch has resolved with a text channel: the callback reads the clock
\* and resolves its window
ChannelFetched ==
  /\ alive
  /\ fire.pc = "fetch"
  /\ fire' = [kind |-> fire.kind, pc |-> "collect", firedOn |-> fire.firedOn,
              window |-> getCanonicalWindow(windowKind(fire.kind), now)]
  /\ UNCHANGED <<now, minute>>
  /\ fireFrame

\* the fetch has thrown or the channel is no text channel: the callback ends
ChannelMissing ==
  /\ alive
  /\ fire.pc = "fetch"
  /\ fire' = [kind |-> fire.kind, pc |-> "ended", firedOn |-> fire.firedOn]
  /\ UNCHANGED <<now, minute>>
  /\ fireFrame

\* the callback has ended; the clock goes on to the next time of the schedule
NextFiringTime ==
  /\ alive
  /\ fire.pc \in {"idle", "collect", "ended"}
  /\ \E i \in DOMAIN tasks :
       /\ minute' = taskMinute(tasks[i])
       /\ now' = IF minute < taskMinute(tasks[i]) THEN now
                 ELSE plusDays(now, 1)
  /\ now' \in RefDays
  /\ fire' = NoFire
  /\ fireFrame

NextFire ==
  \/ \E i \in 1..MaxTasks : CronFires(i)
  \/ AwaitMinute
  \/ ChannelFetched
  \/ ChannelMissing
  \/ NextFiringTime

SpecFire == InitFire /\ [][NextFire]_vars

\* ------------------------------------------------------------------------
\* Properties of the firings
\* ------------------------------------------------------------------------
Resolving(kind) == fire.pc = "collect" /\ fire.kind = kind

\* the weekly firing is on a Monday and its window is the seven days before
\* it; the monthly firing is on a 1st and its window is the month before it
WeeklyAndMonthlyFromFiringDay ==
  /\ Resolving("weekly") =>
       /\ weekday(fire.firedOn) = 1
       /\ fire.window = Window(minusDays(fire.firedOn, 7),
                               minusDays(fire.firedOn, 1))
  /\ Resolving("monthly") =>
       /\ fire.firedOn.day = 1
       /\ fire.window.start = startOfMonth(minusDays(fire.firedOn, 1))
       /\ fire.window.end = minusDays(fire.firedOn, 1)

\* C20: the window of a firing is resolved from the day of the firing: the
\* firing day for the daily trigger, the Monday-Sunday week before it for
\* the weekly trigger, the calendar month before it for the monthly trigger.
C20_WindowOfFiringDay ==
  /\ Resolving("daily") => fire.window = Window(fire.firedOn, fire.firedOn)
  /\ WeeklyAndMonthlyFromFiringDay

\* ------------------------------------------------------------------------
\* The fetch-based acquisition: fetchWithAnti403 and fetchProfileHtml of
\* unnamed/part_004, fetchProfileHtml of unnamed/part_005
\* ------------------------------------------------------------------------
\* the two sources; the fetcher's field part tells which one runs
Parts == {4, 5}

\* the attempts of the loop over one candidate: attempt <= 5 in
\* fetchWithAnti403, attempt <= 4 in fetchProfileHtml of part_005
Attempts(part) == IF part = 5 THEN 4 ELSE 5

\* how a request ends: a profile page, HTTP 403/429/503, challenge markup in
\* a 2xx body, a non-2xx status that is none of the three, a rejected fetch
ResponseKinds == {"ok", "blocked", "challenge", "other", "neterr"}

\* what farmTrnCookie returns: a cookie string or null
FarmOutcomes == {"cookie", "null"}

\* cookieValid() with the cache given
cookieValid(cache) == cache.value # "none" /\ cache.fresh

\* setCookieCache(cookieStr) with a non-empty string
setCookieCache(cookieStr) == [value |-> cookieStr, fresh |-> TRUE]

\* the Cookie header of the request: COOKIE_CACHE.value if cookieValid() in
\* part_004, TRN_COOKIE if set in part_005
cookieHeader(f, cache) ==
  IF f.part = 5 THEN f.env
  ELSE IF cookieValid(cache) THEN cache.value ELSE "none"

\* a loop over the candidates that starts over after the last URL
nextCandidate_startsOver(f) ==
  [f EXCEPT !.pc = "send",
            !.cand = IF @ < NumCandidates THEN @ + 1 ELSE 1,
            !.attempt = 1, !.didFarm = FALSE,
            !.blockedBefore = (f.part = 5 /\ @)]

\* the loop over the candidates goes to the next URL, or fetchProfileHtml
\* throws after the last one; didFarm is a local of fetchWithAnti403
nextCandidate(f) ==
  IF f.cand < NumCandidates
  THEN [f EXCEPT !.pc = "send", !.cand = @ + 1, !.attempt = 1,
                 !.didFarm = FALSE,
                 !.blockedBefore = (f.part = 5 /\ @)]
  ELSE [f EXCEPT !.pc = "threw"]

\* continue, or the end of the catch: the next attempt on the same
\* candidate, the next candidate when the attempts are used up
retry(f) ==
  IF f.attempt < Attempts(f.part)
  THEN [f EXCEPT !.pc = "send", !.attempt = @ + 1]
  ELSE nextCandidate(f)

\* a non-2xx status that is not 403/429/503 is retried like a rejected fetch
otherStatus_retries(f) == retry(f)

\* if (!res.ok) { lastErr = ...; break; }
otherStatus(f) == nextCandidate(f)

\* farmTrnCookie() is awaited, didFarm = true; continue
farmed(f) == retry([f EXCEPT !.didFarm = TRUE, !.farms = @ + 1])

\* the branch of a 403/429/503 response farms
farmsOnStatus(f, cache) == f.part = 4 /\ ~f.didFarm /\ ~cookieValid(cache)

\* the branch of a challenge body farms
farmsOnChallenge(f) == f.part = 4 /\ ~f.didFarm

\* the process is up, TRN_COOKIE is set or not, no fetch has been made
InitFetch ==
  \E part \in Parts, env \in {"none", "manual"} :
    /\ alive = TRUE
    /\ ready = "done"
    /\ schedules = [g \in Guilds |-> NoRow]
    /\ players = [g \in Guilds |-> {}]
    /\ tasks = <<>>
    /\ guildCrons = NoCrons
    /\ last = [op |-> "installAll"]
    /\ browserContext = FALSE
    /\ bpc = "idle"
    /\ rows = <<>>
    /\ win = [start |-> 0, end |-> 0]
    /\ idx = 0
    /\ cand = 0
    /\ thrown = 0
    /\ results = <<>>
    /\ trace = <<>>
    /\ rankings = NoRankings
    /\ now = FirstDay
    /\ minute = 0
    /\ callArg = <<>>
    /\ callRet = NoCall
    /\ fire = NoFire
    /\ cookieCache = [value |-> IF part = 4 THEN env ELSE "none",
                      fresh |-> FALSE]
    /\ fetcher = [NoFetch EXCEPT !.part = part, !.env = env]
    /\ browser = NoBrowser
    /\ callers = [c \in Callers |-> NoCaller]
    /\ closer = NoCloser
    /\ cookieStore = NoStore
    /\ pageLoads = [b \in Batches |-> NoLoad]

fetchFrame ==
  UNCHANGED <<schedVars, collectVars, rankings, now, minute, callArg, callRet,
              fire, browserVars, storeVars>>

\* fetchProfileHtml(username) is called
FetchProfileHtml ==
  /\ alive
  /\ fetcher.pc \in {"idle", "returned", "threw"}
  /\ fetcher' = [fetcher EXCEPT !.pc = "send", !.cand = 1, !.attempt = 1,
                                !.didFarm = FALSE, !.farms = 0,
                                !.header = "none", !.answer = "none",
                                !.blockedBefore = FALSE]
  /\ UNCHANGED cookieCache
  /\ fetchFrame

\* the headers of the attempt are built and fetch(url, { headers }) is called
SendRequest ==
  /\ alive
  /\ fetcher.pc = "send"
  /\ fetcher' = [fetcher EXCEPT !.pc = "await",
                                !.header = cookieHeader(fetcher, cookieCache),
                                !.answer = "none"]
  /\ UNCHANGED cookieCache
  /\ fetchFrame

\* the fetch settles and the attempt runs to its continue, break or return;
\* farm is what farmTrnCookie returns if the attempt calls it
Response(answer, farm) ==
  /\ alive
  /\ fetcher.pc = "await"
  /\ LET f == [fetcher EXCEPT !.answer = answer,
                 !.blockedBefore = @ \/ answer \in {"blocked", "challenge"}]
         farms == \/ answer = "blocked" /\ farmsOnStatus(fetcher, cookieCache)
                  \/ answer = "challenge" /\ farmsOnChallenge(fetcher)
     IN
     /\ fetcher' =
          CASE answer = "ok" -> [f EXCEPT !.pc = "returned"]
            [] answer = "other" -> otherStatus(f)
            [] answer = "neterr" -> retry(f)
            [] OTHER -> IF farms THEN farmed(f) ELSE retry(f)
     /\ cookieCache' = IF farms /\ farm = "cookie"
                       THEN setCookieCache("farmed") ELSE cookieCache
  /\ fetchFrame

\* TRN_COOKIE_TTL_MIN minutes have passed since the cookie was cached
CookieExpires ==
  /\ alive
  /\ cookieCache.fresh
  /\ cookieCache' = [cookieCache EXCEPT !.fresh = FALSE]
  /\ UNCHANGED fetcher
  /\ fetchFrame

NextFetch ==
  \/ FetchProfileHtml
  \/ SendRequest
  \/ \E answer \in ResponseKinds, farm \in FarmOutcomes : Response(answer, farm)
  \/ CookieExpires

SpecFetch == InitFetch /\ [][NextFetch]_vars

\* ------------------------------------------------------------------------
\* Properties of the fetch-based acquisition
\* ------------------------------------------------------------------------
\* a request of fetchWithAnti403 is under way
Requesting(part) == fetcher.part = part /\ fetcher.pc = "await"

\* the response that settles the request of this step is of one of the kinds
Answered(kinds) == fetcher.pc = "await" /\ fetcher'.answer \in kinds

\* fetchWithAnti403 never sends the TRN_COOKIE value: the cache it is put in
\* at load has expiresAt 0, and cookieValid() is false until a farm
ManualCookieNeverSent ==
  fetcher.part = 4 => fetcher.header # "manual"

\* C24: with TRN_COOKIE configured, every request of fetchWithAnti403, from
\* the first attempt of a fetch on, carries it in the Cookie header.
C24_ManualCookieSent ==
  (Requesting(4) /\ fetcher.env = "manual") => fetcher.header = "manual"

\* C28: the first blocked response of a call (403/429/503, or challenge
\* markup in a 2xx body) is followed by a cookie refresh before the next
\* request, whether the cached cookie is within its TTL or not.
C28_RefreshOnFirstBlocked ==
  [][(Answered({"blocked", "challenge"}) /\ ~fetcher.blockedBefore)
       => fetcher'.farms = fetcher.farms + 1]_vars

\* in part_004 the first challenge body of a fetchWithAnti403 call, and its
\* first 403/429/503 when no valid cookie is cached, are followed by a farm
RefreshWhenNoValidCookie ==
  [][(fetcher.part = 4 /\ ~fetcher.blockedBefore
        /\ \/ Answered({"challenge"})
           \/ Answered({"blocked"}) /\ ~cookieValid(cookieCache))
       => fetcher'.farms = fetcher.farms + 1]_vars

\* C29: farmTrnCookie runs at most once within one fetchProfileHtml call of
\* part_004, all candidates together.
C29_OneFarmPerCall ==
  fetcher.part = 4 => fetcher.farms <= 1

\* farmTrnCookie runs at most once for each candidate
OneFarmPerCandidate ==
  /\ fetcher.farms <= fetcher.cand
  /\ fetcher.farms <= NumCandidates

\* the candidate is given up: the next one is tried from its first attempt,
\* or fetchProfileHtml throws
GivenUp ==
  IF fetcher.cand < NumCandidates
  THEN /\ fetcher'.pc = "send"
       /\ fetcher'.cand = fetcher.cand + 1
       /\ fetcher'.attempt = 1
  ELSE fetcher'.pc = "threw"

\* the same candidate is tried again, or given up when the attempts are
\* used up
Retried ==
  IF fetcher.attempt < Attempts(fetcher.part)
  THEN /\ fetcher'.pc = "send"
       /\ fetcher'.cand = fetcher.cand
       /\ fetcher'.attempt = fetcher.attempt + 1
  ELSE GivenUp

\* fetchProfileHtml is running
Fetching == fetcher.pc \in {"send", "await"}

\* C31: fetchProfileHtml of part_004 tries the candidates in list order from
\* the first, makes at most 5 requests to a candidate, never goes back to an
\* earlier one, returns with the first candidate that succeeds without a
\* request to a later one, and throws only after the last candidate.
C31_CandidatesInOrder ==
  [][fetcher.part = 4 =>
       /\ (~Fetching /\ fetcher'.pc = "send") =>
            (fetcher'.cand = 1 /\ fetcher'.attempt = 1)
       /\ Fetching =>
            /\ \/ fetcher'.cand = fetcher.cand
               \/ fetcher'.cand = fetcher.cand + 1 /\ fetcher'.attempt = 1
            /\ fetcher'.cand = fetcher.cand =>
                 fetcher'.attempt \in {fetcher.attempt, fetcher.attempt + 1}
            /\ fetcher'.attempt <= 5
            /\ fetcher'.cand <= NumCandidates
       /\ Answered({"ok"}) <=> (Fetching /\ fetcher'.pc = "returned")
       /\ fetcher'.pc = "returned" => fetcher'.cand = fetcher.cand
       /\ fetcher.pc = "returned" => fetcher'.pc # "await"
       /\ (Fetching /\ fetcher'.pc = "threw") =>
            /\ fetcher.cand = NumCandidates
            /\ ~Answered({"ok"})]_vars

\* the third candidate has succeeded at its second request
C31_Witness ==
  /\ fetcher.part = 4
  /\ fetcher.pc = "returned"
  /\ fetcher.answer = "ok"
  /\ fetcher.cand = 3
  /\ fetcher.attempt = 2

\* C30 as stated: in fetchWithAnti403 every outcome that is neither success
\* nor blocked, a rejected fetch or a non-2xx status other than 403/429/503,
\* is retried on the same candidate until its attempts are used up.
C30_OtherFailuresRetried ==
  [][(fetcher.part = 4 /\ Answered({"neterr", "other"})) => Retried]_vars

\* C30, amended: in fetchWithAnti403 a rejected fetch is retried on the same
\* candidate until its attempts are used up and only then is the next
\* candidate tried; a non-2xx status other than 403/429/503 gives the
\* candidate up at once.
C30_ErrorsRetriedStatusGivesUp ==
  [][fetcher.part = 4 =>
       /\ Answered({"neterr"}) => Retried
       /\ Answered({"other"}) => GivenUp]_vars

\* the second candidate is about to be tried because the first attempt on
\* the first one was answered with such a status
C30_Witness ==
  /\ fetcher.part = 4
  /\ fetcher.pc = "send"
  /\ fetcher.answer = "other"
  /\ fetcher.cand = 2
  /\ fetcher.attempt = 1
  /\ fetcher.farms = 0
  /\ ~fetcher.blockedBefore

\* ------------------------------------------------------------------------
\* The shared browser of index.js: getBrowserContext calls of concurrent
\* fetches and the checkBrowserIdle call of the timer, await by await
\* ------------------------------------------------------------------------
\* chromium.launch calls the model follows
MaxLaunches == 3

\* the browsers launched so far are numbered 1, 2, ...; 0 is null;
\* browser.contexts[i] is the state of the context of browser i

\* the process is up, no browser has been launched
InitBrowser ==
  /\ alive = TRUE
  /\ ready = "done"
  /\ schedules = [g \in Guilds |-> NoRow]
  /\ players = [g \in Guilds |-> {}]
  /\ tasks = <<>>
  /\ guildCrons = NoCrons
  /\ last = [op |-> "installAll"]
  /\ browserContext = FALSE
  /\ bpc = "idle"
  /\ rows = <<>>
  /\ win = [start |-> 0, end |-> 0]
  /\ idx = 0
  /\ cand = 0
  /\ thrown = 0
  /\ results = <<>>
  /\ trace = <<>>
  /\ rankings = NoRankings
  /\ CalcIdle

browserFrame ==
  UNCHANGED <<schedVars, collectVars, rankings, now, minute, callArg, callRet,
              fire, sessionVars, storeVars>>

\* getBrowserContext() up to its first await: lastBrowserUse is set, the
\* context is returned if there is one
GetBrowserContext(c) ==
  /\ alive
  /\ callers[c].pc = "idle"
  /\ browser' = [browser EXCEPT !.idleLong = FALSE]
  /\ callers' =
       [callers EXCEPT ![c] =
          IF browser.browserContext # 0
          THEN [pc |-> "got", own |-> 0, got |-> browser.browserContext,
                gotWhen |-> browser.contexts[browser.browserContext]]
          ELSE [NoCaller EXCEPT !.pc = "launch"]]
  /\ UNCHANGED closer
  /\ browserFrame

\* browserInstance = await pw.chromium.launch(launchOpts), the import
\* having resolved; the launch resolves or rejects
Launched(c, ok) ==
  /\ alive
  /\ callers[c].pc = "launch"
  /\ IF ok
     THEN /\ Len(browser.contexts) < MaxLaunches
          /\ LET id == Len(browser.contexts) + 1 IN
             /\ browser' = [browser EXCEPT !.browserInstance = id,
                                           !.live = @ \cup {id},
                                           !.contexts = Append(@, "none")]
             /\ callers' = [callers EXCEPT ![c] =
                              [NoCaller EXCEPT !.pc = "context", !.own = id]]
     ELSE /\ callers' = [callers EXCEPT ![c] = NoCaller]
          /\ UNCHANGED browser
  /\ UNCHANGED closer
  /\ browserFrame

\* browserContext = await browserInstance.newContext(...), no cached cookie
\* to add; the context is returned, or newContext rejects
ContextCreated(c, ok) ==
  /\ alive
  /\ callers[c].pc = "context"
  /\ LET id == callers[c].own IN
     IF ok
     THEN /\ browser' = [browser EXCEPT !.browserContext = id,
                                        !.contexts[id] = "open"]
          /\ callers' = [callers EXCEPT ![c] =
                           [pc |-> "got", own |-> id, got |-> id,
                            gotWhen |-> "open"]]
     ELSE /\ callers' = [callers EXCEPT ![c] = NoCaller]
          /\ UNCHANGED browser
  /\ UNCHANGED closer
  /\ browserFrame

\* fetchWithPlaywright has closed its page and ended
Release(c) ==
  /\ alive
  /\ callers[c].pc = "got"
  /\ callers' = [callers EXCEPT ![c] = NoCaller]
  /\ UNCHANGED <<browser, closer>>
  /\ browserFrame

\* BROWSER_IDLE_TIMEOUT has passed since the last getBrowserContext call;
\* every page load ends sooner than that
IdleTimePasses ==
  /\ alive
  /\ ~browser.idleLong
  /\ \A c \in Callers : callers[c].pc = "idle"
  /\ browser' = [browser EXCEPT !.idleLong = TRUE]
  /\ UNCHANGED <<callers, closer>>
  /\ browserFrame

\* checkBrowserIdle up to its first await: the condition holds and
\* browserContext?.close() is called, or browserInstance.close() if there
\* is no context
CloseBegins ==
  /\ alive
  /\ closer.pc = "idle"
  /\ browser.browserInstance # 0
  /\ browser.idleLong
  /\ IF browser.browserContext # 0
     THEN /\ browser' = [browser EXCEPT
                           !.contexts[browser.browserContext] = "closing"]
          /\ closer' = [pc |-> "context", closing |-> browser.browserContext]
     ELSE /\ closer' = [pc |-> "instance", closing |-> browser.browserInstance]
          /\ UNCHANGED browser
  /\ UNCHANGED callers
  /\ browserFrame

\* await browserContext?.close() settles: browserInstance?.close() is
\* called, or the catch is entered and the two handles are cleared
ContextClosed(ok) ==
  /\ alive
  /\ closer.pc = "context"
  /\ IF ok
     THEN /\ browser' = [browser EXCEPT !.contexts[closer.closing] = "closed"]
          /\ closer' = [pc |-> "instance", closing |-> browser.browserInstance]
     ELSE /\ browser' = [browser EXCEPT !.browserInstance = 0,
                                        !.browserContext = 0]
          /\ closer' = NoCloser
  /\ UNCHANGED callers
  /\ browserFrame

\* await browserInstance?.close() settles: the two handles are cleared
InstanceClosed(ok) ==
  /\ alive
  /\ closer.pc = "instance"
  /\ LET id == closer.closing IN
     browser' = [browser EXCEPT
                   !.browserInstance = 0,
                   !.browserContext = 0,
                   !.live = IF ok THEN @ \ {id} ELSE @,
                   !.contexts = IF ok /\ @[id] # "none"
                                THEN [@ EXCEPT ![id] = "closed"] ELSE @]
  /\ closer' = NoCloser
  /\ UNCHANGED callers
  /\ browserFrame

NextBrowser ==
  \/ \E c \in Callers : GetBrowserContext(c)
  \/ \E c \in Callers, ok \in BOOLEAN : Launched(c, ok)
  \/ \E c \in Callers, ok \in BOOLEAN : ContextCreated(c, ok)
  \/ \E c \in Callers : Release(c)
  \/ IdleTimePasses
  \/ CloseBegins
  \/ \E ok \in BOOLEAN : ContextClosed(ok)
  \/ \E ok \in BOOLEAN : InstanceClosed(ok)

SpecBrowser == InitBrowser /\ [][NextBrowser]_vars

\* ------------------------------------------------------------------------
\* Properties of the shared browser
\* ------------------------------------------------------------------------
\* C25: under any interleaving of concurrent fetches at most one browser is
\* alive: with no context yet, a caller that arrives while a launch is in
\* progress launches no second browser.
C25_AtMostOneBrowser ==
  Cardinality(browser.live) <= 1

\* C26: the context getBrowserContext hands a caller is one on which the
\* idle teardown has neither started nor finished a close.
C26_HandedContextUsable ==
  \A c \in Callers : callers[c].pc = "got" => callers[c].gotWhen = "open"

\* checkBrowserIdle clears the two handles in this step
HandlesCleared == closer.pc # "idle" /\ closer'.pc = "idle"

\* C27: when the idle check clears browserInstance and browserContext, the
\* close of the browser instance the handle names has been awaited before,
\* also when the close of the context failed.
C27_InstanceClosedBeforeCleared ==
  [][HandlesCleared =>
       /\ closer.pc = "instance"
       /\ closer.closing = browser.browserInstance]_vars

\* when the close of the context does not fail, the idle check awaits the
\* close of the instance before it clears the handles
InstanceClosedUnlessContextFails ==
  [][(HandlesCleared /\ closer.pc # "context") =>
       /\ closer.pc = "instance"
       /\ closer.closing \in browser.live
       /\ browser'.browserInstance = 0
       /\ browser'.browserContext = 0]_vars

\* ------------------------------------------------------------------------
\* The cookie cache and its expiry: loadCookieFromDB, setCookieCache and
\* getBrowserContext of index.js, cookieValid of unnamed/part_004, on a
\* clock that counts minutes
\* ------------------------------------------------------------------------
\* the last minute the clock of this model shows
MaxClock == 6

\* the fallback of parseInt(TRN_COOKIE_TTL_MIN, 10) || ... in setCookieCache
TtlDefaultIndex == 60
TtlDefaultPart004 == 30

\* the leading decimal digits of a string
RECURSIVE leadingDigits(_)
leadingDigits(str) ==
  IF str # <<>> /\ Head(str) \in Digits
  THEN <<Head(str)>> \o leadingDigits(Tail(str))
  ELSE <<>>

RECURSIVE decimal(_)
decimal(ds) ==
  IF ds = <<>> THEN 0
  ELSE 10 * decimal(SubSeq(ds, 1, Len(ds) - 1)) + DigitVal(ds[Len(ds)])

\* parseInt(str, 10): leading whitespace, a sign, the leading digits; NaN
\* (ok false) when there is no digit
parseInt10(str) ==
  LET t == trimStart(str)
      signed == t # <<>> /\ Head(t) \in {"-", "+"}
      ds == leadingDigits(IF signed THEN Tail(t) ELSE t)
  IN IF ds = <<>> THEN [ok |-> FALSE, n |-> 0]
     ELSE [ok |-> TRUE,
           n |-> IF signed /\ Head(t) = "-" THEN 0 - decimal(ds)
                 ELSE decimal(ds)]

\* ttlMin = Math.max(1, parseInt(TRN_COOKIE_TTL_MIN, 10) || fallback)
ttlMin(env, fallback) ==
  LET p == parseInt10(env)
      n == IF p.ok /\ p.n # 0 THEN p.n ELSE fallback
  IN IF n < 1 THEN 1 ELSE n

ttlOf(st) ==
  ttlMin(st.env, IF st.part = 4 THEN TtlDefaultPart004 ELSE TtlDefaultIndex)

\* values of TRN_COOKIE_TTL_MIN; the empty string stands for the unset one
TtlInputs ==
  { <<>>, <<"1">>, <<"3">>, <<"0">>, <<"-", "5">>, <<"x">>, <<" ", "2", "m">> }

\* a cookie that is still usable at the minute of its expiry
fresh_atExpiry(c, t) == c.value # "none" /\ t <= c.expiresAt

\* the test of the three places that use a cached cookie:
\* row.value && row.expires_at > Date.now(), COOKIE_CACHE.value &&
\* Date.now() < COOKIE_CACHE.expiresAt, cookieValid()
fresh(c, t) == c.value # "none" /\ t < c.expiresAt

\* what setCookieCache leaves in COOKIE_CACHE for a non-empty string
cached(cookieStr, t, ttl) ==
  [value |-> cookieStr, expiresAt |-> t + ttl, storedAt |-> t]

\* a setCookieCache that does not run qSetCookie
persist_notWritten(st, cookieStr, t) == st.row

\* qSetCookie.run(cookieStr, COOKIE_CACHE.expiresAt)
persist(st, cookieStr, t) == cached(cookieStr, t, ttlOf(st))

\* the use of a cached cookie that the step makes
use(site, c) ==
  [site |-> site, value |-> c.value, expiresAt |-> c.expiresAt,
   storedAt |-> c.storedAt]

\* the module has been loaded: index.js with an empty cookie_cache table,
\* part_004 with TRN_COOKIE set or not
InitCookie ==
  \E part \in {0, 4}, env \in TtlInputs, manual \in {"none", "manual"} :
    /\ part = 0 => manual = "none"
    /\ alive = TRUE
    /\ ready = "done"
    /\ schedules = [g \in Guilds |-> NoRow]
    /\ players = [g \in Guilds |-> {}]
    /\ tasks = <<>>
    /\ guildCrons = NoCrons
    /\ last = [op |-> "installAll"]
    /\ browserContext = FALSE
    /\ bpc = "idle"
    /\ rows = <<>>
    /\ win = [start |-> 0, end |-> 0]
    /\ idx = 0
    /\ cand = 0
    /\ thrown = 0
    /\ results = <<>>
    /\ trace = <<>>
    /\ rankings = NoRankings
    /\ now = FirstDay
    /\ minute = 0
    /\ callArg = <<>>
    /\ callRet = NoCall
    /\ fire = NoFire
    /\ cookieCache = NoCookie
    /\ fetcher = NoFetch
    /\ browser = NoBrowser
    /\ callers = [c \in Callers |-> NoCaller]
    /\ closer = NoCloser
    /\ cookieStore = [NoStore EXCEPT !.part = part, !.env = env,
                                     !.cache.value = manual]
    /\ pageLoads = [b \in Batches |-> NoLoad]

cookieFrame ==
  UNCHANGED <<schedVars, collectVars, rankings, now, callArg, callRet, fire,
              sessionVars, browserVars, pageLoads>>

\* a minute passes
Tick ==
  /\ alive
  /\ minute < MaxClock
  /\ minute' = minute + 1
  /\ cookieStore' = [cookieStore EXCEPT !.used = NoUse]
  /\ cookieFrame

\* index.js: a page load of fetchWithPlaywright has ended with tracker
\* cookies in the context: setCookieCache(cookieStr)
PageLoadStores(cookieStr) ==
  /\ alive
  /\ cookieStore.part = 0
  /\ LET c == cached(cookieStr, minute, ttlOf(cookieStore)) IN
     cookieStore' = [cookieStore EXCEPT
                       !.cache = c,
                       !.row = persist(cookieStore, cookieStr, minute),
                       !.used = use("store", c)]
  /\ UNCHANGED minute
  /\ cookieFrame

\* index.js: the process is started again on the same database:
\* COOKIE_CACHE is empty, then loadCookieFromDB()
Restart ==
  /\ alive
  /\ cookieStore.part = 0
  /\ LET row == cookieStore.row IN
     cookieStore' =
       IF fresh(row, minute)
       THEN [cookieStore EXCEPT !.cache = row, !.used = use("load", row)]
       ELSE [cookieStore EXCEPT !.cache = NoCached, !.used = NoUse]
  /\ UNCHANGED minute
  /\ cookieFrame

\* index.js: getBrowserContext has created a context and adds the cached
\* cookies to it if the test holds
NewContext ==
  /\ alive
  /\ cookieStore.part = 0
  /\ cookieStore' = [cookieStore EXCEPT !.used =
                       IF fresh(cookieStore.cache, minute)
                       THEN use("context", cookieStore.cache) ELSE NoUse]
  /\ UNCHANGED minute
  /\ cookieFrame

\* part_004: farmTrnCookie has returned a cookie: setCookieCache(ck)
FarmStores(cookieStr) ==
  /\ alive
  /\ cookieStore.part = 4
  /\ cookieStore' = [cookieStore EXCEPT
                       !.cache = cached(cookieStr, minute, ttlOf(cookieStore)),
                       !.used = NoUse]
  /\ UNCHANGED minute
  /\ cookieFrame

\* part_004: fetchWithAnti403 builds the headers of an attempt
Request ==
  /\ alive
  /\ cookieStore.part = 4
  /\ cookieStore' = [cookieStore EXCEPT !.used =
                       IF fresh(cookieStore.cache, minute)
                       THEN use("request", cookieStore.cache) ELSE NoUse]
  /\ UNCHANGED minute
  /\ cookieFrame

CookieStrings == {"c1", "c2"}

NextCookie ==
  \/ Tick
  \/ \E ck \in CookieStrings : PageLoadStores(ck)
  \/ Restart
  \/ NewContext
  \/ \E ck \in CookieStrings : FarmStores(ck)
  \/ Request

SpecCookie == InitCookie /\ [][NextCookie]_vars

\* ------------------------------------------------------------------------
\* Properties of the cookie cache
\* ------------------------------------------------------------------------
\* the cookie the step before this state has used, if it has used one
Used(sites) == cookieStore.used.site \in sites

\* C32: the cached cookie is loaded at start, added to a new context or sent
\* with a request only while the time is before its expiry, and the expiry
\* is the time it was stored plus the configured TTL, at least one minute.
C32_UsedBeforeExpiry ==
  Used({"load", "context", "request"}) =>
    /\ cookieStore.used.value \in CookieStrings
    /\ minute < cookieStore.used.expiresAt
    /\ cookieStore.used.expiresAt =
         cookieStore.used.storedAt + ttlOf(cookieStore)
    /\ cookieStore.used.storedAt + 1 <= cookieStore.used.expiresAt
    /\ LET p == parseInt10(cookieStore.env) IN
       (p.ok /\ p.n >= 1) =>
         cookieStore.used.expiresAt = cookieStore.used.storedAt + p.n

\* a cookie stored at minute 2 with a TTL of three minutes is sent at minute 4
C32_Witness ==
  /\ Used({"request"})
  /\ cookieStore.env = <<"3">>
  /\ cookieStore.used.storedAt = 2
  /\ minute = 4

\* C33: after a page load that yields a tracker cookie, COOKIE_CACHE and the
\* cookie_cache row both hold that string with the same expiry, the store
\* time plus the TTL; whenever COOKIE_CACHE holds a cookie the row equals it.
C33_RowEqualsCache ==
  cookieStore.part = 0 =>
    /\ Used({"store"}) =>
         /\ cookieStore.cache.value = cookieStore.used.value
         /\ cookieStore.cache.expiresAt = minute + ttlOf(cookieStore)
    /\ cookieStore.cache.value # "none" =>
         /\ cookieStore.row.value = cookieStore.cache.value
         /\ cookieStore.row.expiresAt = cookieStore.cache.expiresAt

\* a second page load has replaced the cookie of the first one
C33_Witness ==
  /\ cookieStore.part = 0
  /\ Used({"store"})
  /\ cookieStore.row.value = "c2"
  /\ cookieStore.row.storedAt = 3
  /\ cookieStore.env = <<"-", "5">>

\* ------------------------------------------------------------------------
\* scrapeDailyBlocks on the day sections of a page
\* ------------------------------------------------------------------------
\* the most day sections a page of this model has
MaxSections == 3

\* Math.round of a finite value
round(x) == (2 * x.num + x.den) \div (2 * x.den)

\* parseInt(text, 10) || 0
parseIntOr0(text) == LET p == parseInt10(text) IN IF p.ok THEN p.n ELSE 0

\* A match row: the class v3-match-row--win, the texts of
\* .v3-separate-slash .value, the value parseFloat reads from the K/D stat
\* and the one it reads from the HS stat.
Row(isWin, kdList, kd, hs) ==
  [isWin |-> isWin, kdList |-> kdList, kd |-> kd, hs |-> hs]

\* k and d of one row
rowKD(row) ==
  IF Len(row.kdList) >= 2
  THEN [k |-> parseIntOr0(row.kdList[1]), d |-> parseIntOr0(row.kdList[2])]
  ELSE LET kd == IF row.kd = NaN THEN Num(0) ELSE row.kd
           d == IF Positive(kd) THEN 1 ELSE 0
       IN [k |-> round(Times(kd, Num(d))), d |-> d]

RECURSIVE countRows(_, _)
countRows(matchRows, isWin) ==
  IF matchRows = <<>> THEN 0
  ELSE (IF Head(matchRows).isWin = isWin THEN 1 ELSE 0)
         + countRows(Tail(matchRows), isWin)

RECURSIVE kSum(_)
kSum(matchRows) ==
  IF matchRows = <<>> THEN 0
  ELSE rowKD(Head(matchRows)).k + kSum(Tail(matchRows))

RECURSIVE dSum(_)
dSum(matchRows) ==
  IF matchRows = <<>> THEN 0
  ELSE rowKD(Head(matchRows)).d + dSum(Tail(matchRows))

\* hsAcc and hsN: the rows whose HS text parses
RECURSIVE hsAcc(_)
hsAcc(matchRows) ==
  IF matchRows = <<>> THEN Num(0)
  ELSE IF Head(matchRows).hs = NaN THEN hsAcc(Tail(matchRows))
  ELSE Plus(Head(matchRows).hs, hsAcc(Tail(matchRows)))

RECURSIVE hsN(_)
hsN(matchRows) ==
  IF matchRows = <<>> THEN 0
  ELSE (IF Head(matchRows).hs = NaN THEN 0 ELSE 1) + hsN(Tail(matchRows))

\* the object pushed for a section whose header resolves to iso
sectionBlock(header, iso, matchRows) ==
  [dateLabel |-> header, iso |-> iso,
   wins |-> Num(countRows(matchRows, TRUE)),
   losses |-> Num(countRows(matchRows, FALSE)),
   k |-> Num(kSum(matchRows)), d |-> Num(dSum(matchRows)),
   hs_pct |-> IF hsN(matchRows) > 0
              THEN Over(hsAcc(matchRows), Num(hsN(matchRows))) ELSE Num(0)]

\* a scrape that leaves out the sections without match rows
RECURSIVE scrapeSections_skipEmpty(_, _)
scrapeSections_skipEmpty(sections, ref) ==
  IF sections = <<>> THEN <<>>
  ELSE LET header == trim(Head(sections).header)
           iso == toISOFromLabel(header, ref)
       IN (IF iso = NoIso \/ Head(sections).rows = <<>> THEN <<>>
           ELSE <<sectionBlock(header, iso, Head(sections).rows)>>)
            \o scrapeSections_skipEmpty(Tail(sections), ref)

\* the .each over the sections of scrapeDailyBlocks: blocks in the order of
\* the sections, none for a header toISOFromLabel gives null for
RECURSIVE scrapeSections(_, _)
scrapeSections(sections, ref) ==
  IF sections = <<>> THEN <<>>
  ELSE LET header == trim(Head(sections).header)
           iso == toISOFromLabel(header, ref)
       IN (IF iso = NoIso THEN <<>>
           ELSE <<sectionBlock(header, iso, Head(sections).rows)>>)
            \o scrapeSections(Tail(sections), ref)

\* headers of day sections: days, the same day with other spacing, a day
\* no month has, and a header that is no day label
Headers ==
  { Label("Aug", 27), Label("Aug", 26), <<" ", "Aug", " ", " ", "2", "7">>,
    Label("Feb", 30), <<"Today">> }

MatchRows ==
  { <<>>,
    <<Row(TRUE, << <<"4">>, <<"2">> >>, NaN, Num(25))>>,
    <<Row(FALSE, << <<"x">>, <<"3">> >>, NaN, NaN),
      Row(TRUE, <<>>, Frac(3, 2), Num(50))>> }

Sections == [header : Headers, rows : MatchRows]

Pages == UNION {[1..n -> Sections] : n \in 0..MaxSections}

ScrapeDays == {Date(FirstYear, 1, 5), Date(FirstYear, 8, 28)}

InitScrape ==
  /\ alive = TRUE
  /\ ready = "done"
  /\ schedules = [g \in Guilds |-> NoRow]
  /\ players = [g \in Guilds |-> {}]
  /\ tasks = <<>>
  /\ guildCrons = NoCrons
  /\ last = [op |-> "installAll"]
  /\ browserContext = FALSE
  /\ bpc = "idle"
  /\ rows = <<>>
  /\ win = [start |-> 0, end |-> 0]
  /\ idx = 0
  /\ cand = 0
  /\ thrown = 0
  /\ results = <<>>
  /\ trace = <<>>
  /\ rankings = NoRankings
  /\ now \in ScrapeDays
  /\ minute = 0
  /\ callArg = <<>>
  /\ callRet = NoCall
  /\ fire = NoFire
  /\ SessionIdle

\* scrapeDailyBlocks on a page with these sections
ScrapeDailyBlocks(sections) ==
  /\ alive /\ callRet = NoCall
  /\ callArg' = sections
  /\ callRet' = [fn |-> "scrapeDailyBlocks",
                 value |-> scrapeSections(sections, now)]
  /\ UNCHANGED <<schedVars, collectVars, rankings, now, minute, fire,
                 sessionVars, browserVars, storeVars>>

\* one call in a behaviour
NextScrape ==
  /\ callRet = NoCall
  /\ \E sections \in Pages : ScrapeDailyBlocks(sections)

SpecScrape == InitScrape /\ [][NextScrape]_vars

\* ------------------------------------------------------------------------
\* Properties of scrapeDailyBlocks
\* ------------------------------------------------------------------------
Scraped == callRet # NoCall /\ callRet.fn = "scrapeDailyBlocks"

\* the header of a section resolves to a date
resolves(section) == toISOFromLabel(section.header, now) # NoIso

\* the positions of the sections whose header resolves, in document order
resolving(sections) ==
  SelectSeq([i \in DOMAIN sections |-> i], LAMBDA i : resolves(sections[i]))

\* C34: no two blocks of one extraction have the same resolved date, also
\* when several sections of the page carry the same date label.
C34_ResolvedDateUnique ==
  Scraped =>
    \A i, j \in DOMAIN callRet.value :
      i # j => callRet.value[i].iso # callRet.value[j].iso

\* C35: one block per section whose label resolves, in document order; a
\* label that does not resolve ('Today', 'Feb 30') gives no block, and a
\* section with a valid label and no match rows gives a block of zeros.
C35_OneBlockPerResolvedSection ==
  Scraped =>
    LET at == resolving(callArg)
        blocks == callRet.value
    IN /\ Len(blocks) = Len(at)
       /\ \A n \in DOMAIN blocks :
            LET section == callArg[at[n]] IN
            /\ blocks[n].dateLabel = trim(section.header)
            /\ blocks[n].iso # NoIso
            /\ blocks[n].iso.year \in {now.year - 1, now.year}
            /\ blocks[n].iso.day = matchLabel(section.header).day
            /\ blocks[n].iso.month = MONTHS_EN[matchLabel(section.header).mon]
            /\ blocks[n].wins.num + blocks[n].losses.num = Len(section.rows)
            /\ section.rows = <<>> =>
                 /\ blocks[n].wins = Num(0)
                 /\ blocks[n].losses = Num(0)
                 /\ blocks[n].k = Num(0)
                 /\ blocks[n].d = Num(0)
                 /\ blocks[n].hs_pct = Num(0)
       /\ \A i \in DOMAIN callArg :
            (matchLabel(callArg[i].header) = NoMatch
               \/ callArg[i].header = Label("Feb", 30)) =>
              \A n \in DOMAIN at : at[n] # i

\* 'Feb 30' first, then a day without match rows, then a day with rows
C35_Witness ==
  /\ Scraped
  /\ Len(callArg) = 3
  /\ callArg[1].header = Label("Feb", 30)
  /\ callArg[2].header = Label("Aug", 26) /\ callArg[2].rows = <<>>
  /\ callArg[3].header = <<"Today">>
  /\ Len(callRet.value) = 1
  /\ callRet.value[1].wins = Num(0)

\* ------------------------------------------------------------------------
\* The schedule manager between operations
\* ------------------------------------------------------------------------
\* the tasks the guildCrons entry of guild g holds
EntryTasks(gc, g) ==
  IF gc[g] = NoEntry THEN {} ELSE {gc[g].daily, gc[g].weekly, gc[g].monthly}

\* C36: once installAllCrons has run, in every state between two handlers a
\* guild has a guildCrons entry, with its three tasks running, exactly if it
\* has a row in schedules.
C36_EntryIffRow ==
  (alive /\ ready = "done") =>
    \A g \in Guilds :
      /\ (guildCrons[g] # NoEntry) <=> (schedules[g] # NoRow)
      /\ \A i \in EntryTasks(guildCrons, g) :
           i \in DOMAIN tasks /\ tasks[i].guild = g /\ tasks[i].running

\* after startup, one guild has been scheduled and cancelled while the other
\* one is scheduled
C36_Witness ==
  /\ alive /\ ready = "done"
  /\ last.op = "cancelar"
  /\ schedules[last.guild] = NoRow
  /\ Cardinality({j \in DOMAIN tasks : tasks[j].guild = last.guild}) = 3
  /\ \E h \in Guilds \ {last.guild} : guildCrons[h] # NoEntry

\* C37: a firing for a guild begins only from a task of the guild's current
\* guildCrons entry, while the guild has a row; a row appears only by an
\* accepted program call for that guild.  So no firing for g begins after
\* cancel(g) until g is programmed again, and none of a replaced set.
C37_OnlyCurrentSetFires ==
  [][/\ last'.op = "tick" =>
          LET g == last'.guild IN
          /\ schedules[g] # NoRow
          /\ last'.task \in EntryTasks(guildCrons, g)
          /\ tasks[last'.task].guild = g
          /\ TaskMatchesRow(tasks[last'.task], schedules[g])
     /\ \A g \in Guilds :
          (schedules[g] = NoRow /\ schedules'[g] # NoRow) =>
            (last'.op = "programar" /\ last'.accepted /\ last'.guild = g)
     /\ \A g \in Guilds :
          (last'.op = "cancelar" /\ last'.guild = g) =>
            (schedules'[g] = NoRow /\ EntryTasks(guildCrons', g) = {})]_vars

\* a task of the second set of a guild has fired; the first set is stopped
C37_Witness ==
  /\ alive
  /\ last.op = "tick"
  /\ last.task \in EntryTasks(guildCrons, last.guild)
  /\ \E j \in DOMAIN tasks :
       /\ tasks[j].guild = last.guild
       /\ ~tasks[j].running
       /\ j \notin EntryTasks(guildCrons, last.guild)

\* guild h keeps its row, its guildCrons entry and its tasks in this step
Untouched(h) ==
  /\ schedules'[h] = schedules[h]
  /\ guildCrons'[h] = guildCrons[h]
  /\ \A i \in DOMAIN tasks :
       tasks[i].guild = h => (i \in DOMAIN tasks' /\ tasks'[i] = tasks[i])
  /\ \A i \in DOMAIN tasks' :
       tasks'[i].guild = h => i \in DOMAIN tasks

\* C38 as stated: a program call, a cancel or a firing of guild g leaves the
\* row, the entry and the tasks of every other guild as they were, and a
\* registration, a removal or a firing leaves those of every guild as they
\* were.
C38_OtherGuildsUntouched ==
  [][/\ last'.op \in {"programar", "cancelar", "tick"} =>
          \A h \in Guilds \ {last'.guild} : Untouched(h)
     /\ last'.op \in {"cadastrar", "remover", "tick"} =>
          \A h \in Guilds : Untouched(h)]_vars

\* the same for every step but a firing that ends the process
UntouchedUnlessExit ==
  [][/\ (last'.op \in {"programar", "cancelar"}
           \/ (last'.op = "tick" /\ last'.outcome # "exit")) =>
          \A h \in Guilds \ {last'.guild} : Untouched(h)
     /\ (last'.op \in {"cadastrar", "remover"}
           \/ (last'.op = "tick" /\ last'.outcome # "exit")) =>
          \A h \in Guilds : Untouched(h)]_vars

\* ------------------------------------------------------------------------
\* fetchWithPlaywright, await by await, in the batches that run at once
\* ------------------------------------------------------------------------
\* what can go wrong on the way: page.goto rejects (navigation timeout), the
\* challenge is still shown at the last poll, waitForSelector times out,
\* page.content or ctx.cookies rejects
Throwing == {"navTimeout", "contentError"}

\* a body whose rejection leaves the function without page.close()
afterBody_noFinally(load, event) ==
  IF event \in Throwing
  THEN [load EXCEPT !.pc = "idle", !.path = @ \cup {event}, !.ended = "threw"]
  ELSE [load EXCEPT !.pc = "closing", !.path = @ \cup {event}]

\* the try body has ended, by return or by a rejection: finally runs
afterBody(load, event) ==
  [load EXCEPT !.pc = "closing", !.path = @ \cup {event}]

InitPages ==
  /\ alive = TRUE
  /\ ready = "done"
  /\ schedules = [g \in Guilds |-> NoRow]
  /\ players = [g \in Guilds |-> {}]
  /\ tasks = <<>>
  /\ guildCrons = NoCrons
  /\ last = [op |-> "installAll"]
  /\ browserContext = FALSE
  /\ bpc = "idle"
  /\ rows = <<>>
  /\ win = [start |-> 0, end |-> 0]
  /\ idx = 0
  /\ cand = 0
  /\ thrown = 0
  /\ results = <<>>
  /\ trace = <<>>
  /\ rankings = NoRankings
  /\ CalcIdle

pagesFrame ==
  UNCHANGED <<schedVars, collectVars, rankings, now, minute, callArg, callRet,
              fire, sessionVars, browserVars, cookieStore>>

\* a batch calls fetchWithPlaywright(url): up to await getBrowserContext()
CallFetch(b) ==
  /\ pageLoads[b].pc = "idle"
  /\ pageLoads' = [pageLoads EXCEPT ![b] = [NoLoad EXCEPT !.pc = "context"]]
  /\ pagesFrame

\* getBrowserContext settles; a rejection leaves the function, no page yet
ContextSettles(b, ok) ==
  /\ pageLoads[b].pc = "context"
  /\ pageLoads' = [pageLoads EXCEPT ![b] =
                     IF ok THEN [@ EXCEPT !.pc = "newPage"]
                     ELSE [@ EXCEPT !.pc = "idle", !.ended = "threw"]]
  /\ pagesFrame

\* ctx.newPage() settles; the try block begins after it
PageOpened(b, ok) ==
  /\ pageLoads[b].pc = "newPage"
  /\ pageLoads' = [pageLoads EXCEPT ![b] =
                     IF ok THEN [@ EXCEPT !.pc = "goto", !.page = TRUE]
                     ELSE [@ EXCEPT !.pc = "idle", !.ended = "threw"]]
  /\ pagesFrame

\* page.goto settles, then the first wait
Navigated(b, ok) ==
  /\ pageLoads[b].pc = "goto"
  /\ pageLoads' = [pageLoads EXCEPT ![b] =
                     IF ok THEN [@ EXCEPT !.pc = "poll"]
                     ELSE afterBody(@, "navTimeout")]
  /\ pagesFrame

\* one turn of while (attempts < 10): page.content(), the test, the wait
Polled(b, seen) ==
  /\ pageLoads[b].pc = "poll"
  /\ pageLoads' = [pageLoads EXCEPT ![b] =
       IF seen = "error" THEN afterBody(@, "contentError")
       ELSE IF seen = "clear" THEN [@ EXCEPT !.pc = "selector"]
       ELSE IF @.attempts + 1 < CFPolls
       THEN [@ EXCEPT !.attempts = @ + 1]
       ELSE [@ EXCEPT !.attempts = @ + 1, !.pc = "selector",
                      !.path = @ \cup {"challengeStays"}]]
  /\ pagesFrame

\* waitForSelector settles (its timeout is caught), then the last wait
SelectorSettles(b, found) ==
  /\ pageLoads[b].pc = "selector"
  /\ pageLoads' = [pageLoads EXCEPT ![b] =
                     [@ EXCEPT !.pc = "final",
                               !.path = IF found THEN @
                                        ELSE @ \cup {"selectorTimeout"}]]
  /\ pagesFrame

\* finalHtml = await page.content(); ctx.cookies(); return finalHtml
FinalContent(b, ok) ==
  /\ pageLoads[b].pc = "final"
  /\ pageLoads' = [pageLoads EXCEPT ![b] =
                     afterBody(@, IF ok THEN "success" ELSE "contentError")]
  /\ pagesFrame

\* finally { await page.close() }: the call returns or throws
PageClosed(b) ==
  /\ pageLoads[b].pc = "closing"
  /\ pageLoads' = [pageLoads EXCEPT ![b] =
                     [@ EXCEPT !.pc = "idle", !.page = FALSE,
                               !.ended =
                                 IF pageLoads[b].path \cap Throwing # {}
                                 THEN "threw" ELSE "returned"]]
  /\ pagesFrame

NextPages ==
  \/ \E b \in Batches : CallFetch(b)
  \/ \E b \in Batches, ok \in BOOLEAN : ContextSettles(b, ok)
  \/ \E b \in Batches, ok \in BOOLEAN : PageOpened(b, ok)
  \/ \E b \in Batches, ok \in BOOLEAN : Navigated(b, ok)
  \/ \E b \in Batches, seen \in {"clear", "challenge", "error"} : Polled(b, seen)
  \/ \E b \in Batches, found \in BOOLEAN : SelectorSettles(b, found)
  \/ \E b \in Batches, ok \in BOOLEAN : FinalContent(b, ok)
  \/ \E b \in Batches : PageClosed(b)

SpecPages == InitPages /\ [][NextPages]_vars

\* ------------------------------------------------------------------------
\* Properties of the page loads
\* ------------------------------------------------------------------------
\* the fetchWithPlaywright call of batch b is between its call and its end
InProgress(b) == pageLoads[b].pc # "idle"

\* C39: when a fetchWithPlaywright call has returned or thrown, on whatever
\* path, the page it opened is closed; a page is open only inside its call.
C39_PageClosedAtEnd ==
  \A b \in Batches :
    /\ ~InProgress(b) => ~pageLoads[b].page
    /\ pageLoads[b].page => pageLoads[b].pc \in {"goto", "poll", "selector",
                                                 "final", "closing"}
    /\ pageLoads[b].ended = "threw" =>
         (pageLoads[b].path \cap Throwing # {} \/ pageLoads[b].path = {})
    /\ pageLoads[b].ended = "returned" => "success" \in pageLoads[b].path

\* a call has thrown after the challenge stayed to the last poll and the
\* selector timed out, while the other batch's call ended by a navigation
\* timeout
C39_Witness ==
  /\ pageLoads["b1"].ended = "threw"
  /\ pageLoads["b1"].path =
       {"challengeStays", "selectorTimeout", "contentError"}
  /\ pageLoads["b2"].ended = "threw"
  /\ pageLoads["b2"].path = {"navTimeout"}
  /\ ~pageLoads["b1"].page /\ ~pageLoads["b2"].page

\* C40: at most one fetchWithPlaywright call is in progress at any moment.
C40_OneLoadAtATime ==
  Cardinality({b \in Batches : InProgress(b)}) <= 1

====
